---- MODULE Spec2Model ----
(***************************************************************************)
(* Model of the LLM Council backend: the async job store and runner with   *)
(* its webhook dispatcher (backend/webhooks.py, backend/main.py) and the   *)
(* three-stage deliberation engine (backend/council.py).                   *)
(*                                                                         *)
(* Scheduling is asyncio's: one event loop, a coroutine runs without       *)
(* interruption between two awaits, so every action below is the code      *)
(* between two suspension points.                                          *)
(***************************************************************************)
EXTENDS Integers, Sequences, FiniteSets, TLC

VARIABLES
    store,      \* the keys of the module-level dict _jobs
    obj,        \* the dict object created for each job id (Python references)
    hist,       \* the dicts each stored job held after every write, in order
    task,       \* the background task run_council_async(job_id) of each job
    now,        \* the wall clock read by datetime.utcnow() and time.time()
    call,       \* one stand-alone call of send_webhook (SpecWebhook)
    delib,      \* one run of run_full_council (SpecCouncil)
    fn,         \* one application of a pure function of the engine (SpecParse)
    utcoffset   \* the UTC offset of the process's local time zone, in hours

vars == <<store, obj, hist, task, now, call, delib, fn, utcoffset>>

-----------------------------------------------------------------------------
(* Bounds of the model *)

MaxJobs == 2
MaxTime == 1
MaxRetries == 3
MaxCouncil == 2
MaxText == 4
MaxRankers == 2
MaxRanking == 3

(* Python's None *)
None == "None"

-----------------------------------------------------------------------------
(* send_webhook: backend/webhooks.py lines 109-168 *)

\* retries: int = 3
DefaultRetries == 3

\* What one `await client.post(...)` can end with: a response with a status
\* code, httpx.TimeoutException, or any other exception.
Http(code) == [kind |-> "response", status_code |-> code]
Timeout == [kind |-> "timeout", status_code |-> 0]
TransportError == [kind |-> "error", status_code |-> 0]

PostOutcomes == {Http(200), Http(299), Http(300), Http(500), Timeout, TransportError}

\* The order of the payload keys as Python compares the strings.
KeyOrder == <<"error", "event", "job_id", "metadata", "query", "result", "timing">>

KeyRank(k) == CHOOSE i \in 1..Len(KeyOrder) : KeyOrder[i] = k

\* A payload is a dict: the sequence of its (key, value) items in insertion
\* order.  Insert one item into a sequence of items sorted by key.
RECURSIVE InsertSorted(_, _)
InsertSorted(item, items) ==
    IF items = <<>> THEN <<item>>
    ELSE IF KeyRank(item[1]) <= KeyRank(Head(items)[1]) THEN <<item>> \o items
    ELSE <<Head(items)>> \o InsertSorted(item, Tail(items))

RECURSIVE SortItems(_)
SortItems(items) ==
    IF items = <<>> THEN <<>>
    ELSE InsertSorted(Head(items), SortItems(Tail(items)))

\* json.dumps(payload, sort_keys=True).encode(): the bytes of the JSON text,
\* which lists the items by ascending key.
json_dumps_sorted(payload) == <<"json", SortItems(payload)>>

\* hmac.new(secret.encode(), payload_bytes, hashlib.sha256).hexdigest():
\* the digest is kept symbolic, as the pair it is a function of.
hmac_sha256_hexdigest(key, bytes) == <<"hmac-sha256-hex", key, bytes>>

\* line 135, `if secret:`: None and the empty string are both falsy
Truthy(secret) == secret # None /\ secret # ""

\* The value of a header the dict does not hold
NoHeader == <<>>

\* (mutant) the signature over the JSON text in insertion order
BuildHeaders_Unsorted(payload, secret) ==
    [content_type |-> "application/json",
     user_agent |-> "LLM-Council-Webhook/1.0",
     signature |->
        IF Truthy(secret)
        THEN <<"sha256=", hmac_sha256_hexdigest(secret, <<"json", payload>>)>>
        ELSE NoHeader]

\* lines 129-145: the headers of every attempt of the call
BuildHeaders(payload, secret) ==
    [content_type |-> "application/json",
     user_agent |-> "LLM-Council-Webhook/1.0",
     signature |->
        IF Truthy(secret)
        THEN <<"sha256=", hmac_sha256_hexdigest(secret, json_dumps_sorted(payload))>>
        ELSE NoHeader]

RECURSIVE Pow2(_)
Pow2(n) == IF n = 0 THEN 1 ELSE 2 * Pow2(n - 1)

\* (mutant) a backoff that starts at two seconds
BackoffDelay_FromTwo(attempt) == Pow2(attempt + 1)

\* asyncio.sleep(2 ** attempt)
BackoffDelay(attempt) == Pow2(attempt)

\* lines 129-148: the call up to its first await of client.post; with
\* retries <= 0 the loop body never runs and the call returns False.
send_webhook_enter(webhook_url, payload, secret, retries) ==
    [webhook_url |-> webhook_url,
     payload |-> payload,
     secret |-> secret,
     retries |-> retries,
     headers |-> BuildHeaders(payload, secret),
     attempt |-> 0,
     posts |-> <<>>,
     sleeps |-> <<>>,
     pc |-> IF retries > 0 THEN "posting" ELSE "returned",
     ret |-> FALSE]

\* (mutant) status 300 counted as delivered
IsDelivered_Upto300(outcome) ==
    outcome.kind = "response" /\ outcome.status_code <= 300

\* line 156
IsDelivered(outcome) == outcome.kind = "response" /\ outcome.status_code < 300

\* line 165
BackoffDue(c) == c.attempt < c.retries - 1

\* (mutant) a timeout leaves the retry loop
send_webhook_post_TimeoutAborts(c, outcome) ==
    LET sent == Append(c.posts, [headers |-> c.headers, json |-> c.payload,
                                 outcome |-> outcome])
    IN  IF IsDelivered(outcome)
        THEN [c EXCEPT !.posts = sent, !.pc = "returned", !.ret = TRUE]
        ELSE IF BackoffDue(c) /\ outcome.kind # "timeout"
        THEN [c EXCEPT !.posts = sent, !.pc = "sleeping",
                       !.sleeps = Append(@, BackoffDelay(c.attempt))]
        ELSE [c EXCEPT !.posts = sent, !.pc = "returned", !.ret = FALSE]

\* lines 150-168: the awaited POST of attempt c.attempt ends with `outcome`
send_webhook_post(c, outcome) ==
    LET sent == Append(c.posts, [headers |-> c.headers, json |-> c.payload,
                                 outcome |-> outcome])
    IN  IF IsDelivered(outcome)
        THEN [c EXCEPT !.posts = sent, !.pc = "returned", !.ret = TRUE]
        ELSE IF BackoffDue(c)
        THEN [c EXCEPT !.posts = sent, !.pc = "sleeping",
                       !.sleeps = Append(@, BackoffDelay(c.attempt))]
        ELSE [c EXCEPT !.posts = sent, !.pc = "returned", !.ret = FALSE]

\* line 166 returns: line 148 takes the next attempt, or the loop is over
\* and line 168 returns False
send_webhook_wake(c) ==
    IF c.attempt + 1 < c.retries
    THEN [c EXCEPT !.attempt = @ + 1, !.pc = "posting"]
    ELSE [c EXCEPT !.attempt = @ + 1, !.pc = "returned", !.ret = FALSE]

\* No call of send_webhook made (yet)
NoCall == [pc |-> "none", ret |-> FALSE, posts |-> <<>>, sleeps |-> <<>>]

-----------------------------------------------------------------------------
(* The job store: backend/webhooks.py lines 13-106 and 256-266 *)

JobIds == 1..MaxJobs

\* class JobStatus
JobStatus == {"pending", "running", "completed", "failed", "webhook_sent",
              "webhook_failed"}

\* datetime.utcnow().isoformat() + "Z" of the clock value t; an unset
\* timestamp (None) is the empty tuple
IsoZ(t) == <<t>>
NoStamp == <<>>

\* datetime.fromisoformat(s.rstrip("Z")).timestamp():
\* datetime.fromisoformat() of a string without offset is a naive datetime,
\* and timestamp() reads a naive datetime as local time: a wall-clock value
\* written by utcnow() comes back moved by the zone's offset
FromIsoZ(s, offset) == s[1] - offset

\* The zones the process runs in: behind UTC, UTC, ahead of UTC
UtcOffsets == {-1, 0, 1}

\* The bodies POSTed to /api/council/async (CouncilAsyncRequest)
Requests ==
    {[query |-> "q1", webhook_url |-> "http://hook/a", webhook_secret |-> None,
      final_only |-> FALSE, models |-> None, chairman |-> None,
      include_details |-> TRUE, metadata |-> None],
     [query |-> "q1", webhook_url |-> "http://hook/a", webhook_secret |-> "s3cret",
      final_only |-> FALSE, models |-> None, chairman |-> None,
      include_details |-> TRUE, metadata |-> "meta"]}

\* The dict create_job stores; result_summary is the key update_job adds
\* later, read as None by .get() until then.
create_job(job_id, request, t) ==
    [job_id |-> job_id,
     status |-> "pending",
     query |-> request.query,
     webhook_url |-> request.webhook_url,
     webhook_secret |-> request.webhook_secret,
     final_only |-> request.final_only,
     models |-> request.models,
     chairman |-> request.chairman,
     include_details |-> request.include_details,
     metadata |-> request.metadata,
     created_at |-> IsoZ(t),
     started_at |-> NoStamp,
     completed_at |-> NoStamp,
     error |-> None,
     result |-> None,
     result_summary |-> None]

\* A job id no dict was created for
NoJob == [job_id |-> 0]

\* dict.update(updates)
DictUpdate(d, updates) ==
    [f \in DOMAIN d |-> IF f \in DOMAIN updates THEN updates[f] ELSE d[f]]

\* (mutant) one that writes the record whether or not the id is in the store
update_job_Upsert(s, o, job_id, updates) ==
    [o EXCEPT ![job_id] = DictUpdate(@, updates)]

\* update_job(job_id, **updates) on the store with keys s and dicts o
update_job(s, o, job_id, updates) ==
    IF job_id \in s THEN [o EXCEPT ![job_id] = DictUpdate(@, updates)] ELSE o

\* What a call update_job(job_id, **updates) leaves in the store: the dict
\* after the write, or nothing when the call is not made or the id is gone
Written(s, o, job_id, updates) ==
    IF job_id \in s /\ "status" \in DOMAIN updates
    THEN <<DictUpdate(o[job_id], updates)>>
    ELSE <<>>

\* cleanup_old_jobs: the ids whose created_at is before the cutoff
ToRemove(s, o, t, max_age_hours) ==
    {j \in s : FromIsoZ(o[j].created_at, utcoffset) < t - max_age_hours}

-----------------------------------------------------------------------------
(* run_council_async: backend/webhooks.py lines 171-253 *)

\* What handle_council_command returns, and the text of what it raises
\* What handle_council_command returns when run_full_council found stage 1
\* empty (council.py lines 417-422): stage1 and stage2 empty, stage3 the
\* sentinel text
AllFailedResult == "All models failed to respond. Please try again."

EngineResults == {"council result", AllFailedResult}
EngineErrors == {"engine error"}

\* str(KeyError(job_id)), raised by _jobs[job_id] at line 214
KeyErrorText == "'job_id'"

\* The text of an exception raised by send_webhook before its retry loop
\* (secret.encode(), json.dumps and httpx.AsyncClient() at lines 135-147
\* run outside the loop's try)
SetupErrorText == "send_webhook raised"

\* (mutant) the running update without its timestamp
RunningUpdates_NoStartedAt(t) == [status |-> "running"]

\* line 184
RunningUpdates(t) == [status |-> "running", started_at |-> IsoZ(t)]

\* (mutant) the status is written on its own, ahead of the other fields
CompletedUpdates_StatusFirst(t, result) == [status |-> "completed"]

\* lines 196-202
CompletedUpdates(t, result) ==
    [status |-> "completed", completed_at |-> IsoZ(t), result |-> result,
     result_summary |-> "Council completed"]

\* (mutant) the delivered update also drops the stored result
WebhookSentUpdates_DropsResult == [status |-> "webhook_sent", result |-> None]

\* line 226
WebhookSentUpdates == [status |-> "webhook_sent"]

\* line 228
WebhookFailedUpdates ==
    [status |-> "webhook_failed", error |-> "Failed to deliver webhook after retries"]

\* lines 232-237
FailedUpdates(t, error_msg) ==
    [status |-> "failed", completed_at |-> IsoZ(t), error |-> error_msg]

\* No update_job call
NoUpdates == <<>>

\* lines 205-216: job is the dict the runner fetched at line 180, stored the
\* dict now under _jobs[job_id]
CompletedPayload(job, job_id, result, stored) ==
    << <<"event", "council.completed">>,
       <<"job_id", job_id>>,
       <<"query", job.query>>,
       <<"result", result>>,
       <<"metadata", job.metadata>>,
       <<"timing", [created_at |-> job.created_at, started_at |-> job.started_at,
                    completed_at |-> stored.completed_at]>> >>

\* lines 243-249
FailedPayload(job, job_id, error_msg) ==
    << <<"event", "council.failed">>,
       <<"job_id", job_id>>,
       <<"query", job.query>>,
       <<"error", error_msg>>,
       <<"metadata", job.metadata>> >>

\* The event of a payload
EventOf(payload) == payload[1][2]

\* A task that was not created
IdleTask ==
    [pc |-> "none", path |-> "none", engine |-> "none", result |-> None,
     dispatched |-> {}, raised |-> FALSE, wh |-> NoCall]

\* send_webhook raised before its first attempt
RaisedCall == [NoCall EXCEPT !.pc = "raised"]

\* (mutant) the outcome of the failure webhook advances the status too
WebhookResultUpdates_AnyPath(path, ret) ==
    IF ret THEN WebhookSentUpdates ELSE WebhookFailedUpdates

\* lines 225-228 on the success path; on the failure path (lines 240-253)
\* what send_webhook returns is dropped
WebhookResultUpdates(path, ret) ==
    IF path = "success"
    THEN IF ret THEN WebhookSentUpdates ELSE WebhookFailedUpdates
    ELSE NoUpdates

\* lines 230-253 up to the first awaited POST of the failure webhook: the
\* result is the dicts and the task after it, and the dicts written
ExceptHandler(s, o, tk, job_id, t, error_msg, setup_raises) ==
    LET o2 == update_job(s, o, job_id, FailedUpdates(t, error_msg))
        job == o2[job_id]
        tk2 == [tk EXCEPT !.path = "failure",
                          !.dispatched = @ \cup {"council.failed"},
                          !.raised = @ \/ setup_raises]
    IN  [obj |-> o2,
         written |-> Written(s, o, job_id, FailedUpdates(t, error_msg)),
         task |->
            IF setup_raises
            THEN [tk2 EXCEPT !.pc = "done", !.wh = RaisedCall]
            ELSE [tk2 EXCEPT !.pc = "webhook",
                             !.wh = send_webhook_enter(job.webhook_url,
                                        FailedPayload(job, job_id, error_msg),
                                        job.webhook_secret, DefaultRetries)]]

\* lines 196-223 after the engine returned `result`, up to the first awaited
\* POST of the completion webhook, with the except clause of line 230 when
\* line 214 or send_webhook raises
AfterEngineReturn(s, o, tk, job_id, t, result, raises1, raises2) ==
    LET o2 == update_job(s, o, job_id, CompletedUpdates(t, result))
        job == o2[job_id]
        tk2 == [tk EXCEPT !.engine = "returned", !.result = result]
        tk3 == [tk2 EXCEPT !.path = "success", !.pc = "webhook",
                           !.dispatched = @ \cup {"council.completed"}]
        w == Written(s, o, job_id, CompletedUpdates(t, result))
        Prepend(r) == [r EXCEPT !.written = w \o @]
    IN  IF job_id \notin s
        THEN Prepend(ExceptHandler(s, o2, tk2, job_id, t, KeyErrorText, raises2))
        ELSE IF raises1
        THEN Prepend(ExceptHandler(s, o2, [tk3 EXCEPT !.wh = RaisedCall,
                                                      !.raised = TRUE],
                                   job_id, t, SetupErrorText, raises2))
        ELSE [obj |-> o2,
              written |-> w,
              task |-> [tk3 EXCEPT !.wh =
                           send_webhook_enter(job.webhook_url,
                               CompletedPayload(job, job_id, result, o2[job_id]),
                               job.webhook_secret, DefaultRetries)]]

-----------------------------------------------------------------------------
(* Actions of the job subsystem *)

\* The status codes and failures the receiver answers a job's webhook with
JobPostOutcomes == {Http(200), Http(500)}

\* The max_age_hours values DELETE /api/council/jobs/cleanup is called with
CleanupAges == {0, 1}

\* (mutant) the handler runs the deliberation itself before it answers
create_task_Awaited == [IdleTask EXCEPT !.pc = "deliberating"]

\* main.py line 250: asyncio.create_task(run_council_async(...)); the task
\* is scheduled and has not run a step when the handler returns
create_task == [IdleTask EXCEPT !.pc = "scheduled"]

\* POST /api/council/async (main.py lines 225-258): create_job and
\* asyncio.create_task(run_council_async(job_id, ...))
council_async(request) ==
    /\ \E j \in JobIds :
        /\ obj[j] = NoJob
        /\ \A i \in JobIds : i < j => obj[i] # NoJob
        /\ obj' = [obj EXCEPT ![j] = create_job(j, request, now)]
        /\ store' = store \cup {j}
        /\ hist' = [hist EXCEPT ![j] = <<create_job(j, request, now)>>]
        /\ task' = [task EXCEPT ![j] = create_task]
    /\ UNCHANGED <<now, call, delib, fn, utcoffset>>

\* lines 180-188: the task starts and awaits the deliberation
RunnerStart(j) ==
    /\ task[j].pc = "scheduled"
    /\ IF j \notin store
       THEN /\ task' = [task EXCEPT ![j].pc = "done"]
            /\ UNCHANGED <<obj, hist>>
       ELSE /\ obj' = update_job(store, obj, j, RunningUpdates(now))
            /\ hist' = [hist EXCEPT ![j] = @ \o Written(store, obj, j, RunningUpdates(now))]
            /\ task' = [task EXCEPT ![j].pc = "deliberating"]
    /\ UNCHANGED <<store, now, call, delib, fn, utcoffset>>

\* line 188 returns
EngineReturn(j) ==
    /\ task[j].pc = "deliberating"
    /\ \E result \in EngineResults, raises1 \in BOOLEAN, raises2 \in BOOLEAN :
        LET after == AfterEngineReturn(store, obj, task[j], j, now, result,
                                       raises1, raises2)
        IN  /\ obj' = after.obj
            /\ hist' = [hist EXCEPT ![j] = @ \o after.written]
            /\ task' = [task EXCEPT ![j] = after.task]
    /\ UNCHANGED <<store, now, call, delib, fn, utcoffset>>

\* line 188 raises
EngineRaise(j) ==
    /\ task[j].pc = "deliberating"
    /\ \E error_msg \in EngineErrors, raises \in BOOLEAN :
        LET after == ExceptHandler(store, obj, [task[j] EXCEPT !.engine = "raised"],
                                   j, now, error_msg, raises)
        IN  /\ obj' = after.obj
            /\ hist' = [hist EXCEPT ![j] = @ \o after.written]
            /\ task' = [task EXCEPT ![j] = after.task]
    /\ UNCHANGED <<store, now, call, delib, fn, utcoffset>>

\* An awaited POST of the job's webhook ends; when send_webhook returns with
\* it, the runner goes on to its end (lines 225-228, or line 251)
WebhookPost(j) ==
    /\ task[j].pc = "webhook"
    /\ task[j].wh.pc = "posting"
    /\ \E outcome \in JobPostOutcomes :
        LET c == send_webhook_post(task[j].wh, outcome)
            updates == WebhookResultUpdates(task[j].path, c.ret)
        IN  IF c.pc = "returned"
            THEN /\ obj' = update_job(store, obj, j, updates)
                 /\ hist' = [hist EXCEPT ![j] = @ \o Written(store, obj, j, updates)]
                 /\ task' = [task EXCEPT ![j].wh = c, ![j].pc = "done"]
            ELSE /\ UNCHANGED <<obj, hist>>
                 /\ task' = [task EXCEPT ![j].wh = c]
    /\ UNCHANGED <<store, now, call, delib, fn, utcoffset>>

\* The backoff sleep of the job's webhook ends
WebhookWake(j) ==
    /\ task[j].pc = "webhook"
    /\ task[j].wh.pc = "sleeping"
    /\ task' = [task EXCEPT ![j].wh = send_webhook_wake(@)]
    /\ UNCHANGED <<store, obj, hist, now, call, delib, fn, utcoffset>>

\* DELETE /api/council/jobs/cleanup (main.py lines 320-324)
cleanup_old_jobs(max_age_hours) ==
    /\ store' = store \ ToRemove(store, obj, now, max_age_hours)
    /\ store' # store
    /\ UNCHANGED <<obj, hist, task, now, call, delib, fn, utcoffset>>

\* Time passes
Tick ==
    /\ now < MaxTime
    /\ now' = now + 1
    /\ UNCHANGED <<store, obj, hist, task, call, delib, fn, utcoffset>>

IdleCall == NoCall
IdleDelib == [pc |-> "none"]
IdleFn == [pc |-> "none"]

Init ==
    /\ store = {}
    /\ obj = [j \in JobIds |-> NoJob]
    /\ hist = [j \in JobIds |-> <<>>]
    /\ task = [j \in JobIds |-> IdleTask]
    /\ now = 0
    /\ utcoffset \in UtcOffsets
    /\ call = IdleCall
    /\ delib = IdleDelib
    /\ fn = IdleFn

Next ==
    \/ \E request \in Requests : council_async(request)
    \/ \E j \in JobIds : RunnerStart(j)
    \/ \E j \in JobIds : EngineReturn(j)
    \/ \E j \in JobIds : EngineRaise(j)
    \/ \E j \in JobIds : WebhookPost(j)
    \/ \E j \in JobIds : WebhookWake(j)
    \/ \E max_age_hours \in CleanupAges : cleanup_old_jobs(max_age_hours)
    \/ Tick

Spec == Init /\ [][Next]_vars

-----------------------------------------------------------------------------
(* Properties of the job state machine *)

StatusRank(status) ==
    CASE status = "pending" -> 0
      [] status = "running" -> 1
      [] status \in {"completed", "failed"} -> 2
      [] status \in {"webhook_sent", "webhook_failed"} -> 3

StatusStepOk(s1, s2) ==
    /\ StatusRank(s1) <= StatusRank(s2)
    /\ s1 = "pending" => s2 \in {"pending", "running"}
    /\ s1 = "completed" => s2 # "failed"
    /\ s1 = "failed" => s2 # "completed"

\* C1: the status of a stored job only moves along pending -> running ->
\* (completed | failed) -> (webhook_sent | webhook_failed): never back, never
\* past running, and never from completed to failed.
C1_StatusMonotonic ==
    \A j \in JobIds :
        /\ hist[j] # <<>> => hist[j][1].status = "pending"
        /\ \A i \in 1..(Len(hist[j]) - 1) :
              StatusStepOk(hist[j][i].status, hist[j][i + 1].status)

\* C2: on the success path the job is running with started_at while the
\* engine runs, completed with completed_at and the result while the
\* completion webhook is being POSTed, and at the end webhook_sent exactly
\* when send_webhook returned true, webhook_failed otherwise.
C2_SuccessPathOrder ==
    \A j \in JobIds :
        /\ task[j].pc = "deliberating" =>
              /\ obj[j].status = "running"
              /\ obj[j].started_at # NoStamp
        /\ (task[j].path = "success" /\ task[j].pc = "webhook") =>
              /\ obj[j].status = "completed"
              /\ obj[j].started_at # NoStamp
              /\ obj[j].completed_at # NoStamp
              /\ obj[j].result \in EngineResults
        /\ (task[j].path = "success" /\ task[j].pc = "done" /\ j \in store) =>
              /\ task[j].wh.pc = "returned"
              /\ obj[j].status = "webhook_sent" <=> task[j].wh.ret
              /\ obj[j].status = "webhook_failed" <=> ~task[j].wh.ret

C2_Witness ==
    \E j \in JobIds :
        /\ j \in store
        /\ task[j].path = "success" /\ task[j].pc = "done"
        /\ Len(task[j].wh.posts) = 2
        /\ task[j].wh.ret
        /\ obj[j].status = "webhook_sent"

\* C3: once the engine has raised, the failure webhook has been dispatched
\* and the stored job is failed, with the error text and completed_at, and
\* stays so whatever the dispatch returns or raises.
C3_EngineFailureStaysFailed ==
    \A j \in JobIds :
        task[j].engine = "raised" =>
            /\ "council.failed" \in task[j].dispatched
            /\ task[j].pc \in {"webhook", "done"}
            /\ j \in store =>
                  /\ obj[j].status = "failed"
                  /\ obj[j].error \in EngineErrors
                  /\ obj[j].completed_at # NoStamp

C3_Witness ==
    \E j \in JobIds :
        /\ j \in store
        /\ task[j].engine = "raised" /\ task[j].pc = "done"
        /\ task[j].wh.pc = "returned" /\ task[j].wh.ret
        /\ obj[j].status = "failed"

C3_WitnessRaised ==
    \E j \in JobIds :
        /\ j \in store
        /\ task[j].engine = "raised" /\ task[j].pc = "done"
        /\ task[j].wh.pc = "raised"
        /\ obj[j].status = "failed"

TerminalStatus == {"completed", "failed"}
AfterTerminal == {"completed", "failed", "webhook_sent", "webhook_failed"}

\* C4 (as claimed): once a job's stored dict is completed or failed, no later
\* write changes its query, webhook_url, metadata, started_at, completed_at,
\* result or error.
C4_TerminalFieldsImmutable ==
    \A j \in JobIds : \A i \in 1..(Len(hist[j]) - 1) :
        LET old == hist[j][i]
            new == hist[j][i + 1]
        IN  old.status \in AfterTerminal =>
              /\ new.query = old.query
              /\ new.webhook_url = old.webhook_url
              /\ new.metadata = old.metadata
              /\ new.started_at = old.started_at
              /\ new.completed_at = old.completed_at
              /\ new.result = old.result
              /\ new.error = old.error

\* C4 (amended): once a job's stored dict is completed or failed, no later
\* write changes its query, webhook_url, metadata, started_at or result;
\* completed_at and error keep their values in a write that keeps the status
\* or advances it to webhook_sent; the write that advances it to
\* webhook_failed keeps completed_at and sets error to the delivery-failure
\* text.
C4_TerminalFieldsAmended ==
    \A j \in JobIds : \A i \in 1..(Len(hist[j]) - 1) :
        LET old == hist[j][i]
            new == hist[j][i + 1]
        IN  old.status \in AfterTerminal =>
              /\ new.query = old.query
              /\ new.webhook_url = old.webhook_url
              /\ new.metadata = old.metadata
              /\ new.started_at = old.started_at
              /\ new.result = old.result
              /\ new.status \in {old.status, "webhook_sent"} =>
                    /\ new.completed_at = old.completed_at
                    /\ new.error = old.error
              /\ new.status = "webhook_failed" =>
                    /\ new.completed_at = old.completed_at
                    /\ new.error = "Failed to deliver webhook after retries"

C4_Witness ==
    \E j \in JobIds :
        /\ j \in store
        /\ Len(hist[j]) = 4
        /\ hist[j][3].status = "completed"
        /\ hist[j][4] = obj[j]
        /\ obj[j].status = "webhook_failed"
        /\ obj[j].error = "Failed to deliver webhook after retries"
        /\ obj[j].result \in EngineResults
        /\ obj[j].completed_at # NoStamp

\* C5: for a job whose runner started (and none of whose send_webhook calls
\* raised), council.completed is dispatched exactly when the engine
\* returned, council.failed exactly when it raised, and never both.
C5_EventMatchesEngine ==
    \A j \in JobIds :
        (task[j].engine # "none" /\ ~task[j].raised) =>
            /\ "council.completed" \in task[j].dispatched
                  <=> task[j].engine = "returned"
            /\ "council.failed" \in task[j].dispatched
                  <=> task[j].engine = "raised"
            /\ ~({"council.completed", "council.failed"} \subseteq task[j].dispatched)

-----------------------------------------------------------------------------
(* send_webhook called on its own, for every payload, secret and retries *)

\* Payloads: the failure payload in the order run_council_async builds it,
\* the same dict built in another order, and a completion payload
WebhookPayloads ==
    { << <<"event", "council.failed">>, <<"job_id", "j1">>, <<"query", "q1">>,
         <<"error", "boom">>, <<"metadata", "None">> >>,
      << <<"metadata", "None">>, <<"error", "boom">>, <<"query", "q1">>,
         <<"job_id", "j1">>, <<"event", "council.failed">> >>,
      << <<"event", "council.completed">>, <<"job_id", "j1">>, <<"query", "q1">>,
         <<"result", "council result">>, <<"metadata", "None">>,
         <<"timing", "t0">> >> }

\* webhook_secret: absent, empty, and two keys
WebhookSecrets == {None, "", "s3cret", "other"}

InitWebhook ==
    /\ store = {}
    /\ obj = [j \in JobIds |-> NoJob]
    /\ hist = [j \in JobIds |-> <<>>]
    /\ task = [j \in JobIds |-> IdleTask]
    /\ now = 0
    /\ utcoffset = 0
    /\ delib = IdleDelib
    /\ fn = IdleFn
    /\ \E payload \in WebhookPayloads, secret \in WebhookSecrets,
          retries \in 0..MaxRetries :
        call = send_webhook_enter("http://hook/a", payload, secret, retries)

\* The awaited POST of the call ends
SendPost ==
    /\ call.pc = "posting"
    /\ \E outcome \in PostOutcomes : call' = send_webhook_post(call, outcome)
    /\ UNCHANGED <<store, obj, hist, task, now, delib, fn, utcoffset>>

\* The backoff sleep of the call ends
SendWake ==
    /\ call.pc = "sleeping"
    /\ call' = send_webhook_wake(call)
    /\ UNCHANGED <<store, obj, hist, task, now, delib, fn, utcoffset>>

NextWebhook == SendPost \/ SendWake

SpecWebhook == InitWebhook /\ [][NextWebhook]_vars

\* An attempt answered with an HTTP status below 300
Answered2xx(post) ==
    post.outcome.kind = "response" /\ post.outcome.status_code < 300

\* C6: a call makes at most `retries` attempts, none after an attempt
\* answered below 300, and returns true exactly when some attempt was
\* answered below 300, false exactly when all `retries` attempts failed.
C6_AttemptsAndResult ==
    /\ Len(call.posts) <= call.retries
    /\ \A i \in 1..(Len(call.posts) - 1) : ~Answered2xx(call.posts[i])
    /\ call.pc = "returned" =>
          /\ call.ret <=> \E i \in 1..Len(call.posts) : Answered2xx(call.posts[i])
          /\ ~call.ret <=>
                /\ Len(call.posts) = call.retries
                /\ \A i \in 1..Len(call.posts) : ~Answered2xx(call.posts[i])
    /\ (call.pc # "returned" /\ call.posts # <<>>) =>
          ~Answered2xx(call.posts[Len(call.posts)])

C6_Witness ==
    /\ call.retries = DefaultRetries
    /\ call.pc = "returned" /\ call.ret
    /\ Len(call.posts) = DefaultRetries
    /\ call.posts[1].outcome = Http(500)
    /\ call.posts[DefaultRetries].outcome = Http(299)

\* C7: the k-th wait is 2^(k-1) seconds, there is one wait after each failed
\* attempt but the last one allowed, and three failed attempts of a call with
\* the default retries wait 1 s and 2 s.
C7_BackoffDelays ==
    /\ \A k \in 1..Len(call.sleeps) : call.sleeps[k] = 2 ^ (k - 1)
    /\ call.pc = "posting" => Len(call.sleeps) = Len(call.posts)
    /\ call.pc = "sleeping" =>
          /\ Len(call.sleeps) = Len(call.posts)
          /\ Len(call.posts) < call.retries
    /\ (call.pc = "returned" /\ call.posts # <<>>) =>
          Len(call.sleeps) = Len(call.posts) - 1
    /\ (call.pc = "returned" /\ ~call.ret /\ call.retries = DefaultRetries) =>
          call.sleeps = <<1, 2>>

C7_Witness ==
    /\ call.retries = DefaultRetries
    /\ call.pc = "returned" /\ ~call.ret
    /\ Len(call.posts) = DefaultRetries
    /\ call.sleeps = <<1, 2>>

\* The three failures of an attempt
FailureKind(post) ==
    IF post.outcome.kind = "timeout" THEN "timeout"
    ELSE IF post.outcome.kind = "error" THEN "transport error"
    ELSE IF post.outcome.status_code >= 300 THEN "http status"
    ELSE "none"

\* C8: a timeout, a transport error and a status of 300 or more each use up
\* one attempt and nothing else: after a failed attempt of any kind the call
\* waits for and makes the next attempt if one is left and returns false if
\* none is, so where the call stands depends on the number of attempts alone.
C8_FailuresAlike ==
    LET n == Len(call.posts)
    IN  /\ call.pc \in {"posting", "sleeping", "returned"}
        /\ n = IF call.pc = "posting" \/ call.retries = 0
               THEN call.attempt ELSE call.attempt + 1
        /\ (n > 0 /\ FailureKind(call.posts[n]) # "none") =>
              /\ n < call.retries => call.pc \in {"sleeping", "posting"}
              /\ n >= call.retries => call.pc = "returned" /\ ~call.ret
        /\ \A i \in 1..(n - 1) : FailureKind(call.posts[i]) # "none"

C8_Witness ==
    /\ Len(call.posts) = 3
    /\ FailureKind(call.posts[1]) = "timeout"
    /\ FailureKind(call.posts[2]) = "transport error"
    /\ FailureKind(call.posts[3]) = "http status"
    /\ call.pc = "returned" /\ ~call.ret

\* The payload as a mapping from keys to values
PayloadDict(payload) ==
    [k \in {payload[i][1] : i \in 1..Len(payload)} |->
        (CHOOSE i \in 1..Len(payload) : payload[i][1] = k)]

\* The items of a payload listed by ascending key
RECURSIVE ItemsFrom(_, _)
ItemsFrom(payload, n) ==
    IF n > Len(KeyOrder) THEN <<>>
    ELSE IF KeyOrder[n] \in DOMAIN PayloadDict(payload)
    THEN <<payload[PayloadDict(payload)[KeyOrder[n]]]>> \o ItemsFrom(payload, n + 1)
    ELSE ItemsFrom(payload, n + 1)

\* 'sha256=' and the hex HMAC-SHA256, keyed by the secret, of the sorted-keys
\* JSON text of the payload
ExpectedSignature(payload, secret) ==
    <<"sha256=", <<"hmac-sha256-hex", secret, <<"json", ItemsFrom(payload, 1)>>>>>>

-----------------------------------------------------------------------------
(* parse_ranking_from_text (backend/council.py lines 314-348).  A text is   *)
(* the sequence of its pieces: the marker "FINAL RANKING:", a numbered item *)
(* "<digits>. Response X", a bare "Response X", or text that holds none of  *)
(* these.                                                                    *)

Marker == [kind |-> "marker", letter |-> ""]
Numbered(letter) == [kind |-> "numbered", letter |-> letter]
Bare(letter) == [kind |-> "label", letter |-> letter]
Prose == [kind |-> "other", letter |-> ""]

\* Letters a ranker writes: two a small council has labels for, one it has not
RankerLetters == {"A", "B", "Z"}

Pieces ==
    {Marker, Prose} \cup {Numbered(l) : l \in RankerLetters}
                    \cup {Bare(l) : l \in RankerLetters}

Texts == UNION { [1..n -> Pieces] : n \in 0..MaxText }

\* "FINAL RANKING:" in ranking_text
HasMarker(text) == \E i \in 1..Len(text) : text[i] = Marker

FirstMarker(text) ==
    CHOOSE i \in 1..Len(text) :
        /\ text[i] = Marker
        /\ \A k \in 1..(i - 1) : text[k] # Marker

\* Everything after the first marker
AfterFirstMarker(text) == SubSeq(text, FirstMarker(text) + 1, Len(text))

\* Lines 327-329: ranking_text.split("FINAL RANKING:")[1], the text between
\* the first marker and the next one (or the end)
ranking_section(text) ==
    LET rest == AfterFirstMarker(text)
    IN  IF HasMarker(rest) THEN SubSeq(rest, 1, FirstMarker(rest) - 1) ELSE rest

\* re.findall of the numbered pattern
numbered_matches(section) == SelectSeq(section, LAMBDA p : p.kind = "numbered")

\* re.findall of 'Response [A-Z]': a numbered item holds one too
response_matches(section) ==
    SelectSeq(section, LAMBDA p : p.kind \in {"numbered", "label"})

\* The "Response X" part of each match
LabelsOf(matches) ==
    [k \in 1..Len(matches) |-> <<"Response ", matches[k].letter>>]

parse_ranking_from_text(ranking_text) ==
    IF HasMarker(ranking_text)
    THEN LET section == ranking_section(ranking_text)
         IN  IF numbered_matches(section) # <<>>
             THEN LabelsOf(numbered_matches(section))
             ELSE LabelsOf(response_matches(section))
    ELSE LabelsOf(response_matches(ranking_text))

-----------------------------------------------------------------------------
(* run_full_council (backend/council.py): one deliberation.  A model id is *)
(* the pair <<prefix, rest>> of its text, so that startswith is computed.  *)

ModelIds ==
    { <<"", "zai-glm-4.7">>,
      <<"anthropic/", "claude-opus-4.6">>,
      <<"openai/", "gpt-5.2">> }

CEREBRAS_MODEL_IDS ==
    { <<"", "zai-glm-4.6">>, <<"", "zai-glm-4.7">>, <<"", "llama3.1-8b">>,
      <<"", "llama-3.3-70b">>, <<"", "qwen-3-32b">>, <<"", "gpt-oss-120b">> }

ANTHROPIC_MODEL_MAP ==
    { <<"anthropic/", "claude-opus-4.5">>, <<"anthropic/", "claude-sonnet-4.5">>,
      <<"anthropic/", "claude-3.5-sonnet">>, <<"anthropic/", "claude-3.5-haiku">>,
      <<"claude-", "opus-4.5">>, <<"claude-", "sonnet-4.5">> }

is_cerebras_model(model_id) == model_id \in CEREBRAS_MODEL_IDS

is_anthropic_model(model_id) ==
    \/ model_id[1] = "anthropic/"
    \/ model_id[1] = "claude-"
    \/ model_id \in ANTHROPIC_MODEL_MAP

\* Lines 37-52: the provider query_single_model sends an id to, by the
\* ordered tests of its if / elif / else
primary_provider(model_id) ==
    IF is_cerebras_model(model_id) THEN "cerebras"
    ELSE IF is_anthropic_model(model_id) THEN "anthropic"
    ELSE "openrouter"

\* COUNCIL_MODELS as set by the environment: the first two default members
COUNCIL_MODELS == << <<"openai/", "gpt-5.2">>, <<"anthropic/", "claude-opus-4.6">> >>

CHAIRMAN_MODEL == <<"anthropic/", "claude-opus-4.6">>

\* An absent or empty argument (None, [] and "" are all falsy)
Absent == <<>>

\* x or default
OrDefault(x, default) == IF x = Absent THEN default ELSE x

\* council_models: absent, or any list of 1..MaxCouncil ids (repeats allowed)
CouncilInputs ==
    {Absent} \cup UNION { [1..n -> ModelIds] : n \in 1..MaxCouncil }

ChairmanInputs == {Absent, <<"openai/", "gpt-5.2">>}

\* The outcomes of one provider call: a response, or None on any error
CallOutcomes == {"ok", "none"}

\* The texts a ranker answers with: an evaluation with a numbered final
\* ranking, two labels in a sentence, and a ranking of a label that was never
\* handed out
RankerTexts ==
    { <<Prose, Marker, Numbered("B"), Numbered("A")>>,
      <<Bare("B"), Bare("A")>>,
      <<Marker, Numbered("Z")>> }

\* The content of a response: modelled for the rankers only
ContentsOf(stage, outcome) ==
    IF stage = 2 /\ outcome = "ok" THEN RankerTexts ELSE {<<>>}

\* The calls one query_models_parallel starts: one per list position, all
\* in flight at the first await
IssueCalls(model_ids) ==
    [i \in 1..Len(model_ids) |->
        [model |-> model_ids[i], state |-> "inflight", text |-> <<>>]]

Indices(n) == [i \in 1..n |-> i]

\* Positions of the list in the order the provider groups are gathered and
\* merged: cerebras, anthropic, then the rest
cerebras_ids(calls) ==
    SelectSeq(Indices(Len(calls)), LAMBDA i : is_cerebras_model(calls[i].model))

\* (mutant) the Anthropic group takes every id that is not a Cerebras id
anthropic_ids_NotCerebras(calls) ==
    SelectSeq(Indices(Len(calls)), LAMBDA i : ~is_cerebras_model(calls[i].model))

anthropic_ids(calls) ==
    SelectSeq(Indices(Len(calls)), LAMBDA i : is_anthropic_model(calls[i].model))

openrouter_ids(calls) ==
    SelectSeq(Indices(Len(calls)),
              LAMBDA i : /\ ~is_cerebras_model(calls[i].model)
                         /\ ~is_anthropic_model(calls[i].model))

\* (mutant) the merge without the OpenRouter group
MergeOrder_DirectOnly(calls) == cerebras_ids(calls) \o anthropic_ids(calls)

MergeOrder(calls) == cerebras_ids(calls) \o anthropic_ids(calls) \o openrouter_ids(calls)

\* The dict query_models_parallel returns, as its items in order: a key
\* stands where it was first inserted and holds the value written last
query_models_parallel(calls) ==
    LET order == MergeOrder(calls)
        first == SelectSeq(Indices(Len(order)),
                    LAMBDA p : \A q \in 1..(p - 1) :
                        calls[order[q]].model # calls[order[p]].model)
        last(m) == CHOOSE p \in 1..Len(order) :
                      /\ calls[order[p]].model = m
                      /\ \A q \in (p + 1)..Len(order) : calls[order[q]].model # m
    IN  [k \in 1..Len(first) |->
            LET m == calls[order[first[k]]].model
            IN  [model |-> m, response |-> calls[order[last(m)]].state,
                 text |-> calls[order[last(m)]].text]]

\* Lines 144-155 and 229-241: only the successful responses are kept
FormatResults(items) ==
    LET kept == SelectSeq(items, LAMBDA it : it.response = "ok")
    IN  [k \in 1..Len(kept) |-> [model |-> kept[k].model]]

\* Lines 228-239: the successful responses with their text and its parse
FormatRankings(items) ==
    LET kept == SelectSeq(items, LAMBDA it : it.response = "ok")
    IN  [k \in 1..Len(kept) |->
            [model |-> kept[k].model,
             ranking |-> kept[k].text,
             parsed_ranking |-> parse_ranking_from_text(kept[k].text)]]

\* chr(n) for the code points of the uppercase letters
Alphabet ==
    <<"A", "B", "C", "D", "E", "F", "G", "H", "I", "J", "K", "L", "M",
      "N", "O", "P", "Q", "R", "S", "T", "U", "V", "W", "X", "Y", "Z">>

chr(n) == Alphabet[n - 64]

\* (mutant) the letters counted from B
labels_for_FromB(n) == [i \in 1..n |-> chr(66 + (i - 1))]

\* Line 177: labels = [chr(65 + i) for i in range(n)]
labels_for(n) == [i \in 1..n |-> chr(65 + (i - 1))]

\* Lines 180-183: the dict label_to_model as its items in order; the key
\* f"Response {label}" is the pair of its two parts
label_to_model(stage1_results) ==
    LET labels == labels_for(Len(stage1_results))
    IN  [k \in 1..Len(stage1_results) |->
            [label |-> <<"Response ", labels[k]>>,
             model |-> stage1_results[k].model]]

\* A call that has not finished: awaiting its provider, or with a
\* cancellation delivered to it and not yet unwound
Running == {"inflight", "cancelling"}

\* asyncio.gather is done once none of its calls is running
gather_done_FirstCompleted(calls) == \E i \in 1..Len(calls) : calls[i].state \notin Running

gather_done(calls) == \A i \in 1..Len(calls) : calls[i].state \notin Running

\* (mutant) a failing call takes the calls still in flight down with it
call_ends_FailFast(calls, i, outcome) ==
    [k \in 1..Len(calls) |->
        IF k = i THEN [calls[k] EXCEPT !.state = outcome]
        ELSE IF outcome = "none" /\ calls[k].state = "inflight"
        THEN [calls[k] EXCEPT !.state = "none"]
        ELSE calls[k]]

\* One call of a fan-out returns its response, or None after its provider
\* adapter caught the error; the other calls are not touched
call_ends(calls, i, outcome) == [calls EXCEPT ![i].state = outcome]

\* Task.cancel() on the awaiting task cancels the gather it awaits, which
\* cancels every child that is not done
gather_cancel(calls) ==
    [k \in 1..Len(calls) |->
        IF calls[k].state = "inflight"
        THEN [calls[k] EXCEPT !.state = "cancelling"]
        ELSE calls[k]]

\* CancelledError unwinds one call: its `async with` closes the client
call_released(calls, i) == [calls EXCEPT ![i].state = "cancelled"]

NoChairmanCall == [model |-> Absent, state |-> "idle", prompt |-> <<>>]

\* The keys of the dict label_to_model
MapKeys(map) == {map[k].label : k \in 1..Len(map)}

\* label_to_model[label]
MapLookup(map, label) == map[CHOOSE k \in 1..Len(map) : map[k].label = label].model

\* (mutant) positions counted over the known labels only
RankingHits_Compact(parsed_ranking, map) ==
    LET known == SelectSeq(Indices(Len(parsed_ranking)),
                           LAMBDA p : parsed_ranking[p] \in MapKeys(map))
    IN  [k \in 1..Len(known) |->
            [model |-> MapLookup(map, parsed_ranking[known[k]]),
             position |-> k]]

\* Lines 375-378: the (model, position) pairs one parsed ranking adds;
\* labels that are no key of the map are passed over
RankingHits(parsed_ranking, map) ==
    LET known == SelectSeq(Indices(Len(parsed_ranking)),
                           LAMBDA p : parsed_ranking[p] \in MapKeys(map))
    IN  [k \in 1..Len(known) |->
            [model |-> MapLookup(map, parsed_ranking[known[k]]),
             position |-> known[k]]]

\* Lines 369-378 over all stage-2 entries, in order
RECURSIVE AllHits(_, _)
AllHits(stage2_results, map) ==
    IF stage2_results = <<>> THEN <<>>
    ELSE RankingHits(parse_ranking_from_text(Head(stage2_results).ranking), map)
            \o AllHits(Tail(stage2_results), map)

RECURSIVE SumOf(_)
SumOf(positions) ==
    IF positions = <<>> THEN 0 ELSE Head(positions) + SumOf(Tail(positions))

\* round(total / count, 2) in hundredths.  A quotient halfway between two
\* hundredths has a count that is a multiple of eight; with a count of eight
\* the float is exact and round() goes to the even hundredth.
round2(total, count) ==
    LET q == (100 * total) \div count
        r == (100 * total) % count
    IN  IF 2 * r < count THEN q
        ELSE IF 2 * r > count THEN q + 1
        ELSE IF q % 2 = 0 THEN q ELSE q + 1

\* list.sort(key=average_rank): stable, ascending
RECURSIVE InsertByRank(_, _)
InsertByRank(item, sorted) ==
    IF sorted = <<>> THEN <<item>>
    ELSE IF Head(sorted).average_rank <= item.average_rank
    THEN <<Head(sorted)>> \o InsertByRank(item, Tail(sorted))
    ELSE <<item>> \o sorted

RECURSIVE SortByRank(_)
SortByRank(items) ==
    IF items = <<>> THEN <<>>
    ELSE InsertByRank(items[Len(items)], SortByRank(SubSeq(items, 1, Len(items) - 1)))

\* Lines 351-393; average_rank is kept in hundredths
calculate_aggregate_rankings(stage2_results, map) ==
    LET hits == AllHits(stage2_results, map)
        firsts == SelectSeq(Indices(Len(hits)),
                     LAMBDA p : \A q \in 1..(p - 1) : hits[q].model # hits[p].model)
        positions(m) ==
            LET mine == SelectSeq(hits, LAMBDA h : h.model = m)
            IN  [k \in 1..Len(mine) |-> mine[k].position]
        aggregate == [k \in 1..Len(firsts) |->
            LET m == hits[firsts[k]].model
            IN  [model |-> m,
                 average_rank |-> round2(SumOf(positions(m)), Len(positions(m))),
                 rankings_count |-> Len(positions(m))]]
    IN  SortByRank(aggregate)

\* (mutant) the ranking prompt goes to the models that answered stage 1
stage2_models_AnsweredOnly(council_models, stage1_results) ==
    [k \in 1..Len(stage1_results) |-> stage1_results[k].model]

\* Line 174: models = council_models or COUNCIL_MODELS
stage2_models(council_models, stage1_results) ==
    OrDefault(council_models, COUNCIL_MODELS)

AllFailedText == "All models failed to respond. Please try again."

SynthesisErrorText == "Error: Unable to generate final synthesis."

\* Lines 396-415: run_full_council up to the await of the stage-1 fan-out
run_full_council_enter(final_only, council_models, chairman_model) ==
    [pc |-> "stage1", final_only |-> final_only,
     council_models |-> council_models, chairman_model |-> chairman_model,
     calls1 |-> IssueCalls(OrDefault(council_models, COUNCIL_MODELS)),
     calls2 |-> <<>>, call3 |-> NoChairmanCall,
     stage1_results |-> <<>>, stage2_results |-> <<>>,
     labels |-> <<>>, aggregate |-> <<>>, ret |-> <<>>, cancelled |-> "no"]

\* (mutant) in final-only mode the rankers are asked all the same
skip_stage2_Never(final_only) == FALSE

\* Line 424: if final_only
skip_stage2(final_only) == final_only

\* Lines 264-291: the chairman prompt, as its stage-1 part and its stage-2
\* block; the block is written under `if stage2_results`, which an empty
\* list fails
chairman_prompt(stage1_results, stage2_results) ==
    [stage1 |-> stage1_results,
     stage2 |-> IF stage2_results # <<>>
                THEN <<[header |-> "STAGE 2 - Peer Rankings:", rankings |-> stage2_results]>>
                ELSE <<>>]

\* Lines 262-299: the chairman call of stage3_synthesize_final
IssueChairman(d, stage1_results, stage2_results) ==
    [model |-> OrDefault(d.chairman_model, CHAIRMAN_MODEL), state |-> "inflight",
     prompt |-> chairman_prompt(stage1_results, stage2_results)]

\* (mutant) a failed chairman call yields an empty answer
stage3_result_EmptyAnswer(chairman, outcome) ==
    [model |-> chairman, response |-> "", usage |-> <<>>]

\* Lines 301-311: what stage3_synthesize_final returns for the outcome of
\* the chairman call; the usage dict is modelled as its keys
stage3_result(chairman, outcome) ==
    IF outcome = "none"
    THEN [model |-> chairman, response |-> SynthesisErrorText, usage |-> <<>>]
    ELSE [model |-> chairman, response |-> "synthesis", usage |-> <<"total_tokens">>,
          provider |-> primary_provider(chairman)]

\* (mutant) the deliberation goes on without a single stage-1 response
no_responses_Never(stage1_results) == FALSE

\* Line 418: if not stage1_results
no_responses(stage1_results) == stage1_results = <<>>

\* Lines 415-439: the stage-1 fan-out has returned
run_full_council_after_stage1(d) ==
    LET stage1_results == FormatResults(query_models_parallel(d.calls1))
    IN  IF no_responses(stage1_results)
        THEN [d EXCEPT !.pc = "returned",
                       !.ret = [stage1 |-> <<>>, stage2 |-> <<>>,
                                stage3 |-> [model |-> OrDefault(d.chairman_model, CHAIRMAN_MODEL),
                                            response |-> AllFailedText],
                                metadata |-> <<>>]]
        ELSE IF skip_stage2(d.final_only)
        THEN [d EXCEPT !.pc = "stage3", !.stage1_results = stage1_results,
                       !.call3 = IssueChairman(d, stage1_results, <<>>)]
        ELSE [d EXCEPT !.pc = "stage2", !.stage1_results = stage1_results,
                       !.labels = label_to_model(stage1_results),
                       !.calls2 = IssueCalls(stage2_models(d.council_models,
                                                           stage1_results))]

\* Lines 437-450: the stage-2 fan-out has returned
run_full_council_after_stage2(d) ==
    LET stage2_results == FormatRankings(query_models_parallel(d.calls2))
    IN  [d EXCEPT !.pc = "stage3",
                  !.stage2_results = stage2_results,
                  !.aggregate = calculate_aggregate_rankings(stage2_results, d.labels),
                  !.call3 = IssueChairman(d, d.stage1_results, stage2_results)]

\* Lines 299-311 and 426-459: the chairman call has returned; the metadata
\* is that of the branch line 424 took (the one that issued no ranking call
\* sets final_only True)
run_full_council_after_stage3(d, outcome) ==
    [d EXCEPT !.pc = "returned",
              !.call3.state = outcome,
              !.ret = [stage1 |-> d.stage1_results, stage2 |-> d.stage2_results,
                       stage3 |-> stage3_result(d.call3.model, outcome),
                       metadata |-> [label_to_model |-> d.labels,
                                     aggregate_rankings |-> d.aggregate,
                                     final_only |-> (d.calls2 = <<>>)]]]

InitCouncil ==
    /\ store = {}
    /\ obj = [j \in JobIds |-> NoJob]
    /\ hist = [j \in JobIds |-> <<>>]
    /\ task = [j \in JobIds |-> IdleTask]
    /\ now = 0
    /\ utcoffset = 0
    /\ call = IdleCall
    /\ fn = IdleFn
    /\ \E final_only \in BOOLEAN, council_models \in CouncilInputs,
          chairman_model \in ChairmanInputs :
        delib = run_full_council_enter(final_only, council_models, chairman_model)

\* One stage-1 provider call ends
Stage1CallEnds(i, outcome) ==
    /\ i \in 1..Len(delib.calls1)
    /\ delib.calls1[i].state = "inflight"
    /\ delib' = [delib EXCEPT !.calls1 = call_ends(@, i, outcome)]
    /\ UNCHANGED <<store, obj, hist, task, now, call, fn, utcoffset>>

\* The stage-1 gather returns and run_full_council runs to its next await
Stage1Gathered ==
    /\ delib.pc = "stage1"
    /\ delib.cancelled = "no"
    /\ gather_done(delib.calls1)
    /\ delib' = run_full_council_after_stage1(delib)
    /\ UNCHANGED <<store, obj, hist, task, now, call, fn, utcoffset>>

\* One stage-2 provider call ends
Stage2CallEnds(i, outcome) ==
    /\ i \in 1..Len(delib.calls2)
    /\ delib.calls2[i].state = "inflight"
    /\ \E text \in ContentsOf(2, outcome) :
          delib' = [delib EXCEPT !.calls2 = [call_ends(@, i, outcome) EXCEPT ![i].text = text]]
    /\ UNCHANGED <<store, obj, hist, task, now, call, fn, utcoffset>>

\* The stage-2 gather returns and run_full_council runs to its next await
Stage2Gathered ==
    /\ delib.pc = "stage2"
    /\ delib.cancelled = "no"
    /\ gather_done(delib.calls2)
    /\ delib' = run_full_council_after_stage2(delib)
    /\ UNCHANGED <<store, obj, hist, task, now, call, fn, utcoffset>>

\* The chairman call ends and run_full_council returns
ChairmanEnds(outcome) ==
    /\ delib.pc = "stage3"
    /\ delib.call3.state = "inflight"
    /\ delib' = run_full_council_after_stage3(delib, outcome)
    /\ UNCHANGED <<store, obj, hist, task, now, call, fn, utcoffset>>

\* (mutant) CancelledError reaches the caller at once
cancel_complete_AtOnce(d) == TRUE

\* The awaited gather (or the awaited chairman call) ends with
\* CancelledError only when every child it cancelled has finished
cancel_complete(d) ==
    /\ gather_done(d.calls1)
    /\ gather_done(d.calls2)
    /\ d.call3.state \notin Running

\* The task awaiting run_full_council is cancelled at one of its awaits
CallerCancelled ==
    /\ delib.pc \in {"stage1", "stage2", "stage3"}
    /\ delib.cancelled = "no"
    /\ delib' = [delib EXCEPT !.cancelled = "requested",
                              !.calls1 = gather_cancel(@),
                              !.calls2 = gather_cancel(@),
                              !.call3.state = IF @ = "inflight" THEN "cancelling" ELSE @]
    /\ UNCHANGED <<store, obj, hist, task, now, call, fn, utcoffset>>

\* One cancelled provider call unwinds
CallReleased ==
    /\ \/ \E i \in 1..Len(delib.calls1) :
             /\ delib.calls1[i].state = "cancelling"
             /\ delib' = [delib EXCEPT !.calls1 = call_released(@, i)]
       \/ \E i \in 1..Len(delib.calls2) :
             /\ delib.calls2[i].state = "cancelling"
             /\ delib' = [delib EXCEPT !.calls2 = call_released(@, i)]
       \/ /\ delib.call3.state = "cancelling"
          /\ delib' = [delib EXCEPT !.call3.state = "cancelled"]
    /\ UNCHANGED <<store, obj, hist, task, now, call, fn, utcoffset>>

\* run_full_council ends with CancelledError
CancelledRaises ==
    /\ delib.cancelled = "requested"
    /\ cancel_complete(delib)
    /\ delib' = [delib EXCEPT !.cancelled = "raised", !.pc = "cancelled"]
    /\ UNCHANGED <<store, obj, hist, task, now, call, fn, utcoffset>>

NextCouncil ==
    \/ \E i \in 1..MaxCouncil, outcome \in CallOutcomes : Stage1CallEnds(i, outcome)
    \/ Stage1Gathered
    \/ \E i \in 1..MaxCouncil, outcome \in CallOutcomes : Stage2CallEnds(i, outcome)
    \/ Stage2Gathered
    \/ \E outcome \in CallOutcomes : ChairmanEnds(outcome)
    \/ CallerCancelled
    \/ CallReleased
    \/ CancelledRaises

SpecCouncil == InitCouncil /\ [][NextCouncil]_vars

AllFinished(calls) == \A i \in 1..Len(calls) : calls[i].state \in CallOutcomes

\* C10: within one deliberation no stage-2 call is issued while a stage-1
\* call is unfinished; the chairman call is not issued while a stage-2 call
\* is unfinished, nor, in final-only mode (where no stage-2 call is ever
\* issued), while a stage-1 call is unfinished.
C10_StagesInOrder ==
    /\ delib.calls2 # <<>> => AllFinished(delib.calls1)
    /\ delib.call3.state # "idle" =>
          /\ AllFinished(delib.calls1)
          /\ AllFinished(delib.calls2)
          /\ ~delib.final_only => delib.calls2 # <<>>
    /\ delib.final_only => delib.calls2 = <<>>

C10_Witness ==
    /\ ~delib.final_only
    /\ delib.call3.state = "inflight"
    /\ Len(delib.calls1) = 2
    /\ delib.calls1[1].state = "none"
    /\ delib.calls1[2].state = "ok"
    /\ delib.calls2[1].state = "ok"
    /\ delib.calls2[2].state = "none"

-----------------------------------------------------------------------------
(* Properties of the fan-out *)

KeysOf(items) == {items[k].model : k \in 1..Len(items)}

IdsOf(calls) == {calls[i].model : i \in 1..Len(calls)}

FanOutComplete(calls) ==
    AllFinished(calls) =>
        LET results == query_models_parallel(calls)
        IN  /\ KeysOf(results) = IdsOf(calls)
            /\ Cardinality(KeysOf(results)) = Len(results)
            /\ \A k \in 1..Len(results) : results[k].response \in CallOutcomes

\* C11: for every input list and every combination of outcomes, the mapping
\* the fan-out returns has exactly the input ids as its keys, each once,
\* each mapped to a response or to none.
C11_KeySetEqualsInput ==
    /\ FanOutComplete(delib.calls1)
    /\ FanOutComplete(delib.calls2)

C11_Witness ==
    /\ delib.pc = "stage2"
    /\ Len(delib.calls1) = 2
    /\ delib.calls1[1].model = delib.calls1[2].model
    /\ delib.calls1[1].state = "none"
    /\ delib.calls1[2].state = "ok"
    /\ Len(query_models_parallel(delib.calls1)) = 1

DistinctIds(calls) == Cardinality(IdsOf(calls)) = Len(calls)

\* While the caller is not cancelled, a step changes at most one call of a
\* fan-out, from in flight to its own outcome
OneCallEnds(calls, calls2) ==
    \A i \in 1..Len(calls) :
        calls2[i] # calls[i] =>
            /\ calls[i].state = "inflight"
            /\ calls2[i].state \in CallOutcomes
            /\ calls2[i].model = calls[i].model
            /\ \A k \in 1..Len(calls) : k # i => calls2[k] = calls[k]

\* The mapping reports for each of N distinct ids the outcome of its call
ReportsOwnOutcome(calls) ==
    (AllFinished(calls) /\ DistinctIds(calls)) =>
        LET results == query_models_parallel(calls)
        IN  \A i \in 1..Len(calls) : \E k \in 1..Len(results) :
                /\ results[k].model = calls[i].model
                /\ results[k].response = calls[i].state

\* C12: the calls of a fan-out over N models are all in flight when it is
\* issued; a call that fails, in whatever order and provider group, leaves
\* every other call as it was (in flight, or finished with its outcome), and
\* the mapping reports each call's own outcome.
C12_CallsIndependent ==
    /\ [](ReportsOwnOutcome(delib.calls1) /\ ReportsOwnOutcome(delib.calls2))
    /\ [][(delib.cancelled = "no" /\ delib'.cancelled = "no") =>
            /\ OneCallEnds(delib.calls1, delib'.calls1)
            /\ delib.calls2 # <<>> => OneCallEnds(delib.calls2, delib'.calls2)
            /\ (delib.calls2 = <<>> /\ delib'.calls2 # <<>>) =>
                  /\ Len(delib'.calls2) = Len(delib.calls1)
                  /\ \A i \in 1..Len(delib'.calls2) :
                        delib'.calls2[i].state = "inflight"]_vars

C12_Witness ==
    /\ delib.pc = "stage2"
    /\ Len(delib.calls2) = 2
    /\ is_anthropic_model(delib.calls2[1].model)
    /\ is_cerebras_model(delib.calls2[2].model)
    /\ delib.calls2[1].state = "none"
    /\ delib.calls2[2].state = "inflight"

AllCalls(d) ==
    {d.calls1[i].state : i \in 1..Len(d.calls1)}
        \cup {d.calls2[i].state : i \in 1..Len(d.calls2)}
        \cup {d.call3.state}

-----------------------------------------------------------------------------
(* Properties of stage 1 and of the label map *)

\* The stage-1 list is there: the fan-out returned and was formatted
Stage1Formatted == delib.pc \in {"stage2", "stage3", "returned"}

\* The models of the calls that succeeded, by position in the input list
SucceededInInputOrder(calls) ==
    LET kept == SelectSeq(calls, LAMBDA c : c.state = "ok")
    IN  [k \in 1..Len(kept) |-> kept[k].model]

ModelsOf(results) == [k \in 1..Len(results) |-> results[k].model]

\* C14: for a council of distinct models the stage-1 list holds one entry
\* for each model whose call succeeded, none for a model whose call failed,
\* in the order of the models in the input council list.
C14_Stage1InInputOrder ==
    (Stage1Formatted /\ DistinctIds(delib.calls1) /\ AllFinished(delib.calls1)) =>
        ModelsOf(delib.stage1_results) = SucceededInInputOrder(delib.calls1)

\* C15: with N >= 1 stage-1 entries the label map of stage 2 has N entries,
\* the i-th maps "Response " + the i-th uppercase letter to the model of the
\* i-th stage-1 entry, and no label and no model occurs twice in it.
C15_LabelMapBijection ==
    delib.calls2 # <<>> =>
        LET n == Len(delib.stage1_results)
            map == delib.labels
        IN  /\ n >= 1
            /\ Len(map) = n
            /\ \A i \in 1..n :
                  /\ map[i].label = <<"Response ", Alphabet[i]>>
                  /\ map[i].model = delib.stage1_results[i].model
            /\ \A i, k \in 1..n :
                  i # k => /\ map[i].label # map[k].label
                           /\ map[i].model # map[k].model

C15_Witness ==
    /\ delib.pc = "stage2"
    /\ Len(delib.labels) = 2
    /\ delib.labels[2].label = <<"Response ", "B">>
    /\ is_anthropic_model(delib.labels[1].model)
    /\ delib.calls1[2].model = delib.labels[1].model

-----------------------------------------------------------------------------
(* parse_ranking_from_text applied to every text *)

InitParse ==
    /\ store = {}
    /\ obj = [j \in JobIds |-> NoJob]
    /\ hist = [j \in JobIds |-> <<>>]
    /\ task = [j \in JobIds |-> IdleTask]
    /\ now = 0
    /\ utcoffset = 0
    /\ call = IdleCall
    /\ delib = IdleDelib
    /\ \E text \in Texts : fn = [pc |-> "called", text |-> text, result |-> <<>>]

ParseReturns ==
    /\ fn.pc = "called"
    /\ fn' = [fn EXCEPT !.pc = "returned",
                        !.result = parse_ranking_from_text(fn.text)]
    /\ UNCHANGED <<store, obj, hist, task, now, call, delib, utcoffset>>

NextParse == ParseReturns

SpecParse == InitParse /\ [][NextParse]_vars

\* C19: for a text with the marker and a numbered item somewhere after its
\* first occurrence, the result is the labels of all numbered items after
\* that first occurrence, in order, duplicates kept, a later marker
\* notwithstanding.
C19_NumberedAfterFirstMarker ==
    (fn.pc = "returned" /\ HasMarker(fn.text)
        /\ numbered_matches(AfterFirstMarker(fn.text)) # <<>>) =>
        fn.result = LabelsOf(numbered_matches(AfterFirstMarker(fn.text)))

\* C20: with the marker and no numbered item after it the result is every
\* "Response X" after the marker, in order; without the marker it is every
\* "Response X" of the whole text, in order.
C20_FallbacksInOrder ==
    fn.pc = "returned" =>
        /\ (HasMarker(fn.text)
              /\ numbered_matches(AfterFirstMarker(fn.text)) = <<>>) =>
                 fn.result = LabelsOf(response_matches(AfterFirstMarker(fn.text)))
        /\ ~HasMarker(fn.text) =>
                 fn.result = LabelsOf(response_matches(fn.text))

-----------------------------------------------------------------------------
(* Properties of stage 2 *)

\* Stage 2 has completed: its fan-out returned and was formatted
Stage2Formatted ==
    /\ delib.pc \in {"stage3", "returned"}
    /\ delib.calls2 # <<>>

\* C16: in a deliberation that completed stage 2, every label of every
\* stage-2 entry's parsed_ranking is a key of the label map.
C16_ParsedLabelsInMap ==
    Stage2Formatted =>
        \A e \in 1..Len(delib.stage2_results) :
            \A p \in 1..Len(delib.stage2_results[e].parsed_ranking) :
                delib.stage2_results[e].parsed_ranking[p] \in MapKeys(delib.labels)

\* What a final-only deliberation with a stage-1 success returns
FinalOnlyReturn(d) ==
    (d.pc = "returned" /\ d.stage1_results # <<>>) =>
        /\ d.ret.stage1 = d.stage1_results
        /\ d.ret.stage2 = <<>>
        /\ d.ret.metadata.aggregate_rankings = <<>>
        /\ d.ret.metadata.final_only = TRUE
        /\ d.call3.state \in CallOutcomes

\* C17: with final_only and a stage-1 success no ranking call is ever
\* issued, the chairman is called once, with the stage-1 responses and no
\* stage-2 block, and the result has an empty stage-2 list, an empty
\* aggregate ranking and metadata.final_only true.
C17_FinalOnlySkipsStage2 ==
    /\ [](delib.final_only =>
            /\ delib.calls2 = <<>>
            /\ FinalOnlyReturn(delib)
            /\ (delib.pc = "stage3" \/ (delib.pc = "returned" /\ delib.stage1_results # <<>>)) =>
                  /\ delib.call3.state # "idle"
                  /\ delib.call3.model = OrDefault(delib.chairman_model, CHAIRMAN_MODEL)
                  /\ delib.call3.prompt
                        = [stage1 |-> delib.stage1_results, stage2 |-> <<>>])
    /\ [][(delib.final_only /\ delib.call3.state # "idle") =>
            /\ delib'.call3.state # "idle"
            /\ delib'.call3.model = delib.call3.model
            /\ delib'.call3.prompt = delib.call3.prompt]_vars

C17_Witness ==
    /\ delib.final_only
    /\ delib.pc = "returned"
    /\ delib.call3.state = "ok"
    /\ Len(delib.calls1) = 2
    /\ delib.calls1[1].state = "ok"
    /\ delib.calls1[2].state = "none"
    /\ delib.ret.metadata.final_only

\* C18: the ranking prompt of stage 2 goes to the models stage 1 queried,
\* those whose stage-1 call failed included, with the default council and
\* with an override.
C18_SameCouncilInStage2 ==
    delib.calls2 # <<>> =>
        /\ IdsOf(delib.calls2) = IdsOf(delib.calls1)
        /\ Len(delib.calls2) = Len(delib.calls1)
        /\ \A i \in 1..Len(delib.calls2) :
              delib.calls2[i].model = delib.calls1[i].model

C18_Witness ==
    /\ delib.council_models # Absent
    /\ Len(delib.calls2) = 2
    /\ delib.calls1[1].state = "none"
    /\ delib.calls1[2].state = "ok"
    /\ delib.calls2[1].state = "ok"
    /\ delib.calls2[1].model = delib.calls1[1].model

-----------------------------------------------------------------------------
(* calculate_aggregate_rankings applied to every list of rankings *)

\* The label maps stage 2 builds from one and from two stage-1 entries
AggregateMaps ==
    { label_to_model(<<[model |-> <<"anthropic/", "claude-opus-4.6">>]>>),
      label_to_model(<<[model |-> <<"anthropic/", "claude-opus-4.6">>],
                       [model |-> <<"openai/", "gpt-5.2">>]>>) }

\* Ranker texts of up to MaxRanking bare labels "Response A" or "Response B"
AggregateTexts == UNION { [1..n -> {Bare("A"), Bare("B")}] : n \in 0..MaxRanking }

\* The stage-2 lists: up to MaxRankers entries, each with its text
AggregateInputs ==
    UNION { [1..n -> [model : {<<"openai/", "gpt-5.2">>}, ranking : AggregateTexts]]
                : n \in 0..MaxRankers }

InitAggregate ==
    /\ store = {}
    /\ obj = [j \in JobIds |-> NoJob]
    /\ hist = [j \in JobIds |-> <<>>]
    /\ task = [j \in JobIds |-> IdleTask]
    /\ now = 0
    /\ utcoffset = 0
    /\ call = IdleCall
    /\ delib = IdleDelib
    /\ \E stage2_results \in AggregateInputs, map \in AggregateMaps :
          fn = [pc |-> "called", stage2_results |-> stage2_results,
                map |-> map, result |-> <<>>]

AggregateReturns ==
    /\ fn.pc = "called"
    /\ fn' = [fn EXCEPT !.pc = "returned",
                        !.result = calculate_aggregate_rankings(fn.stage2_results, fn.map)]
    /\ UNCHANGED <<store, obj, hist, task, now, call, delib, utcoffset>>

NextAggregate == AggregateReturns

SpecAggregate == InitAggregate /\ [][NextAggregate]_vars

\* The (ranker, index) pairs at which a label stands in the parsed lists
Occurrences(stage2_results, label) ==
    {<<e, p>> \in (1..Len(stage2_results)) \X (1..MaxRanking + 1) :
        LET parsed == parse_ranking_from_text(stage2_results[e].ranking)
        IN  p <= Len(parsed) /\ parsed[p] = label}

RECURSIVE IndexSum(_)
IndexSum(occ) ==
    IF occ = {} THEN 0
    ELSE LET o == CHOOSE x \in occ : TRUE IN o[2] + IndexSum(occ \ {o})

\* The aggregate has one entry for each model of the map some ranker named,
\* none for the others, with the count of its positions
AggregateCounts(stage2_results, map, result) ==
    /\ \A k \in 1..Len(map) :
          LET occ == Occurrences(stage2_results, map[k].label)
              rows == {i \in 1..Len(result) : result[i].model = map[k].model}
          IN  /\ Cardinality(rows) = IF occ = {} THEN 0 ELSE 1
              /\ \A i \in rows : result[i].rankings_count = Cardinality(occ)
    /\ \A i \in 1..Len(result) : \E k \in 1..Len(map) : map[k].model = result[i].model

\* C21 (as claimed): each occurrence of a label of the map at index p adds
\* position p to its model, unknown labels keeping their index, and the
\* reported mean is exactly sum(positions) / count(positions), the reported
\* vote count count(positions).
C21_AggregateExactMean ==
    fn.pc = "returned" =>
        /\ AggregateCounts(fn.stage2_results, fn.map, fn.result)
        /\ \A k \in 1..Len(fn.map), i \in 1..Len(fn.result) :
              fn.result[i].model = fn.map[k].model =>
                  LET occ == Occurrences(fn.stage2_results, fn.map[k].label)
                  IN  fn.result[i].average_rank * Cardinality(occ)
                          = 100 * IndexSum(occ)

\* C21 (amended): as claimed, but the reported mean is sum(positions) /
\* count(positions) rounded to two decimal places (to the nearest hundredth).
C21_AggregateRoundedMean ==
    fn.pc = "returned" =>
        /\ AggregateCounts(fn.stage2_results, fn.map, fn.result)
        /\ \A k \in 1..Len(fn.map), i \in 1..Len(fn.result) :
              fn.result[i].model = fn.map[k].model =>
                  LET occ == Occurrences(fn.stage2_results, fn.map[k].label)
                      off == fn.result[i].average_rank * Cardinality(occ)
                                - 100 * IndexSum(occ)
                  IN  /\ 2 * off <= Cardinality(occ)
                      /\ -2 * off <= Cardinality(occ)

C21_Witness ==
    /\ fn.pc = "returned"
    /\ Len(fn.map) = 1
    /\ Len(fn.stage2_results) = 2
    /\ fn.stage2_results[1].ranking = <<Bare("B"), Bare("A"), Bare("A")>>
    /\ fn.stage2_results[2].ranking = <<Bare("A")>>
    /\ fn.result = <<[model |-> <<"anthropic/", "claude-opus-4.6">>,
                      average_rank |-> 200, rankings_count |-> 3]>>

\* Model ids in lexicographic order
IdOrder ==
    << <<"anthropic/", "claude-opus-4.6">>, <<"openai/", "gpt-5.2">>,
       <<"", "zai-glm-4.7">> >>

IdRank(m) == CHOOSE i \in 1..Len(IdOrder) : IdOrder[i] = m

\* C22: the aggregate is sorted by mean ascending, then by vote count
\* descending, then by model id ascending.
C22_AggregateTieBreak ==
    fn.pc = "returned" =>
        \A i \in 1..(Len(fn.result) - 1) :
            LET a == fn.result[i]
                b == fn.result[i + 1]
            IN  \/ a.average_rank < b.average_rank
                \/ /\ a.average_rank = b.average_rank
                   /\ a.rankings_count > b.rankings_count
                \/ /\ a.average_rank = b.average_rank
                   /\ a.rankings_count = b.rankings_count
                   /\ IdRank(a.model) < IdRank(b.model)

-----------------------------------------------------------------------------
\* The synchronous endpoint: POST /api/council

\* opencode_integration.py lines 10-102: the sections format_council_markdown
\* writes; every field it reads it reads with .get and a default, so a
\* result without usage or an empty metadata dict makes it raise nothing
format_council_markdown(ret, include_details) ==
    (IF include_details /\ ret.stage1 # <<>> THEN <<"Stage 1">> ELSE <<>>)
    \o (IF ret.stage2 # <<>> /\ include_details THEN <<"Stage 2">> ELSE <<>>)
    \o <<"Stage 3", ret.stage3.model, ret.stage3.response>>

\* opencode_integration.py lines 105-168: handle_council_command, called
\* with model lists that are already canonical ids
handle_council_command(d, include_details) ==
    [markdown |-> format_council_markdown(d.ret, include_details),
     stage1 |-> d.ret.stage1, stage2 |-> d.ret.stage2,
     stage3 |-> d.ret.stage3, metadata |-> d.ret.metadata,
     config |-> [council_models |-> OrDefault(d.council_models, COUNCIL_MODELS),
                 chairman_model |-> OrDefault(d.chairman_model, CHAIRMAN_MODEL),
                 final_only |-> d.final_only]]

\* main.py lines 188-212: the handler returns the dict, which the framework
\* answers with status 200
council_deliberation(d, include_details) ==
    [status |-> 200, body |-> handle_council_command(d, include_details)]

Stage1AllFailed(d) ==
    \A i \in 1..Len(d.calls1) : d.calls1[i].state = "none"

Sentinel(d) ==
    [stage1 |-> <<>>, stage2 |-> <<>>,
     stage3 |-> [model |-> OrDefault(d.chairman_model, CHAIRMAN_MODEL),
                 response |-> AllFailedText],
     metadata |-> <<>>]

\* C23: when every stage-1 call fails, run_full_council raises nothing and
\* returns the sentinel (empty stage-1 list, empty stage-2 list, a stage-3
\* response with the text 'All models failed to respond'); no ranking call
\* and no chairman call is issued, and the synchronous endpoint answers 200
\* with that result.
C23_AllFailedSentinel ==
    Stage1AllFailed(delib) =>
        /\ delib.calls2 = <<>>
        /\ delib.call3.state = "idle"
        /\ delib.cancelled = "no" => delib.pc \in {"stage1", "returned"}
        /\ delib.pc = "returned" =>
              /\ delib.ret = Sentinel(delib)
              /\ \A include_details \in BOOLEAN :
                    LET answer == council_deliberation(delib, include_details)
                    IN  /\ answer.status = 200
                        /\ answer.body.stage1 = <<>>
                        /\ answer.body.stage2 = <<>>
                        /\ answer.body.stage3.response = AllFailedText
                        /\ answer.body.markdown
                              = <<"Stage 3", answer.body.stage3.model, AllFailedText>>

C23_Witness ==
    /\ delib.pc = "returned"
    /\ Len(delib.calls1) = 2
    /\ Stage1AllFailed(delib)
    /\ delib.ret.stage3.response = AllFailedText
    /\ ~delib.final_only

\* The metadata of a deliberation that reached the chairman, computed again
\* from the stage lists it returned
MetadataOf(d) ==
    IF d.final_only
    THEN [label_to_model |-> <<>>, aggregate_rankings |-> <<>>, final_only |-> TRUE]
    ELSE [label_to_model |-> label_to_model(d.ret.stage1),
          aggregate_rankings |->
              calculate_aggregate_rankings(d.ret.stage2, label_to_model(d.ret.stage1)),
          final_only |-> FALSE]

\* C24: when the chairman call fails, stage 3 is a placeholder that names
\* the chairman model, carries an error text and an empty usage, and the
\* deliberation returns normally with the stage-1 list, the stage-2 list
\* and the metadata as they were computed before the chairman was called.
C24_ChairmanFailurePlaceholder ==
    (delib.pc = "returned" /\ delib.call3.state = "none") =>
        /\ delib.ret.stage3
              = [model |-> OrDefault(delib.chairman_model, CHAIRMAN_MODEL),
                 response |-> SynthesisErrorText, usage |-> <<>>]
        /\ delib.ret.stage1 = FormatResults(query_models_parallel(delib.calls1))
        /\ delib.ret.stage1 # <<>>
        /\ delib.ret.stage2 = FormatRankings(query_models_parallel(delib.calls2))
        /\ delib.ret.metadata = MetadataOf(delib)

C24_Witness ==
    /\ delib.pc = "returned"
    /\ delib.call3.state = "none"
    /\ delib.ret.stage3.response = SynthesisErrorText
    /\ delib.ret.stage2 # <<>>
    /\ delib.ret.metadata.aggregate_rankings # <<>>

\* C25: the chairman prompt contains the stage-2 block exactly when stage 2
\* ran: it is left out in final-only mode and is there whenever final_only
\* is false, also when stage 2 ran and every ranker failed.
C25_Stage2BlockIffRan ==
    delib.call3.state # "idle" =>
        (delib.call3.prompt.stage2 # <<>> <=> delib.calls2 # <<>>)

-----------------------------------------------------------------------------
\* Single dispatch: query_single_model and the adapter it reaches

\* The ids dispatched: the council ids and a default member without an
\* entry in the fallback map
DispatchIds == ModelIds \cup { <<"deepseek/", "deepseek-v3.2">> }

\* config.py lines 106-118, as (council id, OpenRouter id) pairs
OPENROUTER_FALLBACK_MAP ==
    { << <<"anthropic/", "claude-opus-4.6">>, <<"anthropic/", "claude-opus-4-6">> >>,
      << <<"fireworks/", "kimi-k2.5">>, <<"moonshotai/", "kimi-k2.5">> >>,
      << <<"fireworks/", "glm-5">>, <<"z-ai/", "glm-5">> >>,
      << <<"", "zai-glm-4.7">>, <<"z-ai/", "glm-4.7">> >>,
      << <<"z-ai/", "glm-5">>, <<"z-ai/", "glm-5">> >>,
      << <<"google/", "gemini-3-flash">>, <<"google/", "gemini-2.0-flash-001">> >>,
      << <<"google/", "gemini-3-pro">>, <<"google/", "gemini-2.5-pro-preview-06-05">> >>,
      << <<"openai/", "gpt-5.2">>, <<"openai/", "gpt-5.2">> >>,
      << <<"x-ai/", "grok-4">>, <<"x-ai/", "grok-4">> >>,
      << <<"moonshot/", "kimi-k2.5">>, <<"moonshotai/", "kimi-k2.5">> >>,
      << <<"deepseek/", "deepseek-chat">>, <<"deepseek/", "deepseek-chat">> >> }

\* config.py lines 163-165: OPENROUTER_FALLBACK_MAP.get(model_id)
get_openrouter_fallback(model_id) ==
    IF \E e \in OPENROUTER_FALLBACK_MAP : e[1] = model_id
    THEN (CHOOSE e \in OPENROUTER_FALLBACK_MAP : e[1] = model_id)[2]
    ELSE Absent

\* What the process holds: the three API keys of secrets.py and a valid
\* OAuth token (get_valid_oauth_token returns one)
Credentials ==
    SUBSET {"OPENROUTER_API_KEY", "CEREBRAS_API_KEY", "ANTHROPIC_API_KEY", "oauth"}

\* What the upstream does with one request: a 2xx answer with the content, a
\* non-2xx status, a transport error, a timeout, a 2xx answer whose payload
\* has not the field the content is read from
UpstreamOutcomes == {"ok", "http_error", "transport_error", "timeout", "no_choices"}

NoResponse == [kind |-> "none"]

ModelResponse(content, provider) ==
    [kind |-> "response", content |-> content, provider |-> provider]

ApiKeyOf(provider) ==
    CASE provider = "cerebras" -> "CEREBRAS_API_KEY"
      [] provider = "anthropic" -> "ANTHROPIC_API_KEY"
      [] OTHER -> "OPENROUTER_API_KEY"

Request(provider, model_id, auth) ==
    [provider |-> provider, model |-> model_id, auth |-> auth]

\* council.py lines 37-52 with openrouter.py 31-33, cerebras.py 33-35 and
\* anthropic_client.py 277-280, 234-235: query_single_model up to the first
\* request; an adapter without its key returns None (the ValueError of
\* call_anthropic_api_key is caught at council.py line 48)
query_single_model_enter(model_id, keys) ==
    LET provider == primary_provider(model_id)
        auth == IF provider = "anthropic" /\ "oauth" \in keys THEN "oauth"
                ELSE IF ApiKeyOf(provider) \in keys THEN "api_key"
                ELSE "missing"
    IN  IF auth = "missing"
        THEN [pc |-> "returned", model |-> model_id, keys |-> keys,
              requests |-> <<>>, outcomes |-> <<>>, result |-> NoResponse]
        ELSE [pc |-> "awaiting", model |-> model_id, keys |-> keys,
              requests |-> <<Request(provider, model_id, auth)>>,
              outcomes |-> <<>>, result |-> NoResponse]

\* openrouter.py 50-77, cerebras.py 38-69: every failure is caught and None
\* returned.  anthropic_client.py 185-203, 254-266 with council.py 40-50: a
\* raise is caught by query_single_model; a 2xx payload is read with
\* data.get("content", []), so one without content blocks gives the empty
\* text, which query_single_model returns as a response
adapter_returns(provider, outcome) ==
    IF outcome = "ok" THEN ModelResponse("answer", provider)
    ELSE IF provider = "anthropic" /\ outcome = "no_choices"
         THEN ModelResponse("", provider)
    ELSE NoResponse

\* anthropic_client.py lines 277-295: an OAuth call that ends with an HTTP
\* status error is followed by the call with the API key
query_single_model_resume(f, outcome) ==
    LET req == f.requests[Len(f.requests)]
        seen == Append(f.outcomes, outcome)
    IN  IF req.provider = "anthropic" /\ req.auth = "oauth" /\ outcome = "http_error"
        THEN IF "ANTHROPIC_API_KEY" \in f.keys
             THEN [f EXCEPT !.outcomes = seen,
                            !.requests = Append(@, Request("anthropic", f.model, "api_key"))]
             ELSE [f EXCEPT !.outcomes = seen, !.pc = "returned", !.result = NoResponse]
        ELSE [f EXCEPT !.outcomes = seen, !.pc = "returned",
                       !.result = adapter_returns(req.provider, outcome)]

InitDispatch ==
    /\ store = {}
    /\ obj = [j \in JobIds |-> NoJob]
    /\ hist = [j \in JobIds |-> <<>>]
    /\ task = [j \in JobIds |-> IdleTask]
    /\ now = 0
    /\ utcoffset = 0
    /\ call = IdleCall
    /\ delib = IdleDelib
    /\ \E model_id \in DispatchIds, keys \in Credentials :
          fn = query_single_model_enter(model_id, keys)

\* The upstream answers the request in flight, or fails
UpstreamEnds(outcome) ==
    /\ fn.pc = "awaiting"
    /\ fn' = query_single_model_resume(fn, outcome)
    /\ UNCHANGED <<store, obj, hist, task, now, call, delib, utcoffset>>

NextDispatch == \E outcome \in UpstreamOutcomes : UpstreamEnds(outcome)

SpecDispatch == InitDispatch /\ [][NextDispatch]_vars

\* The primary adapter gave no response: its key is missing or its last
\* request failed
PrimaryFailed(f) ==
    /\ f.pc = "returned"
    /\ \/ f.requests = <<>>
       \/ f.outcomes[Len(f.outcomes)] # "ok"

\* C26: when the primary provider call returns no response and the fallback
\* map has an entry for the id, the call is retried exactly once through
\* the OpenRouter adapter with the mapped id; without an entry no further
\* attempt is made and the result is no response.
C26_FallbackRetriedOnce ==
    (fn.pc = "returned" /\ fn.result = NoResponse) =>
        LET fallback == get_openrouter_fallback(fn.model)
            retries == { i \in 1..Len(fn.requests) :
                            /\ fn.requests[i].provider = "openrouter"
                            /\ fn.requests[i].model = fallback
                            /\ \E j \in 1..(i - 1) :
                                  fn.requests[j].provider = primary_provider(fn.model) }
        IN  IF fallback # Absent /\ "OPENROUTER_API_KEY" \in fn.keys
               /\ primary_provider(fn.model) # "openrouter"
            THEN Cardinality(retries) = 1
            ELSE retries = {}

\* C28: for every id and every failure of the upstream call (non-2xx status,
\* transport error, timeout, payload without the content field, missing API
\* key) query_single_model returns the 'no response' value, never a response
\* with made-up content.
C28_FailureIsNoResponse ==
    PrimaryFailed(fn) => fn.result = NoResponse

-----------------------------------------------------------------------------
\* The router

TagSends(ids, provider) ==
    [k \in 1..Len(ids) |-> [provider |-> provider, index |-> ids[k]]]

\* council.py lines 102-115 with cerebras.py 96, openrouter.py 99 and
\* council.py 77: the requests one fan-out starts, one per member of each
\* provider group, as (provider, list position)
FanOutSends(calls) ==
    TagSends(cerebras_ids(calls), "cerebras")
    \o TagSends(anthropic_ids(calls), "anthropic")
    \o TagSends(openrouter_ids(calls), "openrouter")

-----------------------------------------------------------------------------
\* The stage-streamed endpoint: send_message_stream.event_generator

\* Where the generator is suspended: before its first step, at a yield
\* (y_), in an await (a_), finished, or closed by the consumer
StreamYields ==
    {"y_stage1_start", "y_stage1_complete", "y_stage2_start", "y_stage2_complete",
     "y_stage3_start", "y_stage3_complete", "y_title_complete", "y_complete",
     "y_error"}

StreamAwaits == {"a_stage1", "a_stage2", "a_stage3", "a_title"}

\* main.py lines 420 and 429: the title task is started for the first
\* message of a conversation only
event_generator_enter(is_first_message) ==
    [pc |-> "entered", is_first_message |-> is_first_message,
     title_task |-> "none", events |-> <<>>]

\* A yield: the event goes out and the generator is suspended on it
Emit(f, type) ==
    [f EXCEPT !.events = Append(@, type), !.pc = "y_" \o type]

\* (mutant) the handler reports the error and the body goes on
on_exception_Continues(f) == [f EXCEPT !.events = Append(@, "error")]

\* Lines 464-466: except Exception, yield the error event
on_exception(f) == Emit(f, "error")

\* Lines 457-466: add_assistant_message, then the complete event
save_and_complete(f, outcome) ==
    IF outcome = "raise" THEN on_exception(f) ELSE Emit(f, "complete")

\* Lines 422-466: the code from one yield to the next suspension; outcome is
\* that of the storage call on the way, if there is one
event_generator_next(f, outcome) ==
    CASE f.pc = "entered" ->
            IF outcome = "raise" THEN on_exception(f)
            ELSE Emit([f EXCEPT !.title_task =
                            IF f.is_first_message THEN "running" ELSE "none"],
                      "stage1_start")
      [] f.pc = "y_stage1_start" -> [f EXCEPT !.pc = "a_stage1"]
      [] f.pc = "y_stage1_complete" -> Emit(f, "stage2_start")
      [] f.pc = "y_stage2_start" -> [f EXCEPT !.pc = "a_stage2"]
      [] f.pc = "y_stage2_complete" -> Emit(f, "stage3_start")
      [] f.pc = "y_stage3_start" -> [f EXCEPT !.pc = "a_stage3"]
      [] f.pc = "y_stage3_complete" ->
            IF f.title_task # "none" THEN [f EXCEPT !.pc = "a_title"]
            ELSE save_and_complete(f, outcome)
      [] f.pc = "y_title_complete" -> save_and_complete(f, outcome)
      [] OTHER -> [f EXCEPT !.pc = "ended"]

\* The awaited call is over: its result goes out, or its exception reaches
\* the handler; after the title task, update_conversation_title may raise
event_generator_resume(f, outcome) ==
    IF outcome = "raise" \/ (f.pc = "a_title" /\ f.title_task = "failed")
    THEN on_exception(f)
    ELSE CASE f.pc = "a_stage1" -> Emit(f, "stage1_complete")
           [] f.pc = "a_stage2" -> Emit(f, "stage2_complete")
           [] f.pc = "a_stage3" -> Emit(f, "stage3_complete")
           [] OTHER -> Emit(f, "title_complete")

StepOutcomes == {"ok", "raise"}

\* The steps on which a storage call runs
CallsStorage(f) ==
    \/ f.pc \in {"entered", "y_title_complete"}
    \/ f.pc = "y_stage3_complete" /\ f.title_task = "none"

InitStream ==
    /\ store = {}
    /\ obj = [j \in JobIds |-> NoJob]
    /\ hist = [j \in JobIds |-> <<>>]
    /\ task = [j \in JobIds |-> IdleTask]
    /\ now = 0
    /\ utcoffset = 0
    /\ call = IdleCall
    /\ delib = IdleDelib
    /\ \E is_first_message \in BOOLEAN : fn = event_generator_enter(is_first_message)

\* The consumer asks for the next event
StreamNext(outcome) ==
    /\ fn.pc \in StreamYields \cup {"entered"}
    /\ outcome = "raise" => CallsStorage(fn)
    /\ fn' = event_generator_next(fn, outcome)
    /\ UNCHANGED <<store, obj, hist, task, now, call, delib, utcoffset>>

\* The call the generator awaits ends
StreamAwaited(outcome) ==
    /\ fn.pc \in StreamAwaits
    /\ fn.pc = "a_title" => fn.title_task \in {"done", "failed"}
    /\ fn' = event_generator_resume(fn, outcome)
    /\ UNCHANGED <<store, obj, hist, task, now, call, delib, utcoffset>>

\* The title task, running beside the stages, returns or raises
TitleTaskEnds(outcome) ==
    /\ fn.title_task = "running"
    /\ fn' = [fn EXCEPT !.title_task = IF outcome = "raise" THEN "failed" ELSE "done"]
    /\ UNCHANGED <<store, obj, hist, task, now, call, delib, utcoffset>>

\* The consumer goes away: GeneratorExit or CancelledError, neither of
\* which `except Exception` catches, ends the generator without an event
StreamClosed ==
    /\ fn.pc \in StreamYields \cup StreamAwaits
    /\ fn' = [fn EXCEPT !.pc = "closed"]
    /\ UNCHANGED <<store, obj, hist, task, now, call, delib, utcoffset>>

NextStream ==
    \/ \E outcome \in StepOutcomes : StreamNext(outcome)
    \/ \E outcome \in StepOutcomes : StreamAwaited(outcome)
    \/ \E outcome \in StepOutcomes : TitleTaskEnds(outcome)
    \/ StreamClosed

SpecStream == InitStream /\ [][NextStream]_vars

StageEvents ==
    <<"stage1_start", "stage1_complete", "stage2_start", "stage2_complete",
      "stage3_start", "stage3_complete">>

EventOrder(with_title) ==
    StageEvents \o (IF with_title THEN <<"title_complete">> ELSE <<>>) \o <<"complete">>

IsPrefix(s, t) == Len(s) <= Len(t) /\ s = SubSeq(t, 1, Len(s))

\* C29: the events of a run are a prefix of stage1_start, stage1_complete,
\* stage2_start, stage2_complete, stage3_start, stage3_complete,
\* [title_complete], complete, with at most one error event after it, which
\* ends the stream; complete never follows error.
C29_StreamEventOrder ==
    LET n == Len(fn.events)
        ended_in_error == n > 0 /\ fn.events[n] = "error"
        stages == IF ended_in_error THEN SubSeq(fn.events, 1, n - 1) ELSE fn.events
    IN  fn.pc # "none" =>
          /\ \E with_title \in BOOLEAN : IsPrefix(stages, EventOrder(with_title))
          /\ ended_in_error => fn.pc \in {"y_error", "ended", "closed"}

C29_Witness ==
    /\ fn.pc = "ended"
    /\ fn.events = StageEvents \o <<"title_complete", "error">>

-----------------------------------------------------------------------------
\* Reads of the job store

\* webhooks.py lines 75-77: _jobs.get(job_id)
get_job(job_id) == IF job_id \in store THEN obj[job_id] ELSE NoJob

\* list(_jobs.values()): the dicts in insertion order, which is the order
\* the ids were handed out in
JobsInOrder ==
    [k \in 1..Cardinality(store) |->
        obj[CHOOSE j \in store : Cardinality({i \in store : i < j}) = k - 1]]

\* (mutant) the listing keeps the insertion order
SortByCreated_Unsorted(jobs) == jobs

\* jobs.sort(key=created_at, reverse=True): stable, so among equal
\* timestamps the earlier dict stays first
RECURSIVE SortByCreated(_)
SortByCreated(jobs) ==
    IF jobs = <<>> THEN <<>>
    ELSE LET rest == SortByCreated(SubSeq(jobs, 1, Len(jobs) - 1))
             last == jobs[Len(jobs)]
             ahead == SelectSeq(rest, LAMBDA x : x.created_at[1] >= last.created_at[1])
             behind == SelectSeq(rest, LAMBDA x : x.created_at[1] < last.created_at[1])
         IN  ahead \o <<last>> \o behind

\* A query of more than 100 characters, and its first 100 characters
\* followed by "..."; the other queries of the model are shorter
LongQuery == "q2, of 101 characters"

\* webhooks.py line 91: j["query"][:100] + "..." if len(j["query"]) > 100
\* else j["query"], a new string
query_summary(query) ==
    IF query = LongQuery THEN "q2, of 101 character..." ELSE query

\* webhooks.py lines 82-100 on the list of the stored dicts, for a limit
\* that is not negative
list_jobs_of(values, limit, status) ==
    LET jobs == IF status # None
                THEN SelectSeq(values, LAMBDA x : x.status = status)
                ELSE values
        sorted == SortByCreated(jobs)
        shown == SubSeq(sorted, 1, IF limit < Len(sorted) THEN limit ELSE Len(sorted))
    IN  [k \in 1..Len(shown) |->
            [job_id |-> shown[k].job_id, status |-> shown[k].status,
             query |-> query_summary(shown[k].query),
             webhook_url |-> shown[k].webhook_url,
             created_at |-> shown[k].created_at, started_at |-> shown[k].started_at,
             completed_at |-> shown[k].completed_at, error |-> shown[k].error,
             result_summary |-> shown[k].result_summary]]

\* webhooks.py lines 80-100
list_jobs(limit, status) == list_jobs_of(JobsInOrder, limit, status)

ListLimits == {1, 50}

StartedStatus == JobStatus \ {"pending"}

\* C30: whatever the interleaving of runner tasks and handlers, a read of
\* the job store (get_job, list_jobs) never sees a half-written record: with
\* status completed the result and completed_at are set, with status running
\* or later started_at is set, with status failed the error is set.
C30_ReadsSeeWholeRecords ==
    /\ \A j \in JobIds :
          LET job == get_job(j)
          IN  job # NoJob =>
                /\ job.status = "completed" =>
                      job.result # None /\ job.completed_at # NoStamp
                /\ job.status \in StartedStatus => job.started_at # NoStamp
                /\ job.status = "failed" => job.error # None
    /\ \A limit \in ListLimits, status \in JobStatus \cup {None} :
          LET jobs == list_jobs(limit, status)
          IN  \A k \in 1..Len(jobs) :
                /\ jobs[k].status = "completed" =>
                      jobs[k].completed_at # NoStamp /\ jobs[k].result_summary # None
                /\ jobs[k].status \in StartedStatus => jobs[k].started_at # NoStamp
                /\ jobs[k].status = "failed" => jobs[k].error # None

C30_Witness ==
    \E j \in store :
        /\ get_job(j).status = "completed"
        /\ get_job(j).result # None
        /\ Len(list_jobs(1, "completed")) = 1
        /\ task[j].pc # "done"

-----------------------------------------------------------------------------
\* The HTTP application and the API-key middleware

\* auth.py line 17
PUBLIC_PATHS == {"/", "/health", "/docs", "/openapi.json"}

\* Paths of main.py's routes that requests are made to
RequestPaths ==
    PUBLIC_PATHS \cup {"/api/council", "/api/council/async", "/api/council/jobs"}

\* secrets.py line 119: COUNCIL_API_KEY as loaded, None when not configured
ConfiguredKeys == {None, "k3y"}

\* request.headers.get("X-Council-Key"): absent, empty, the key, another value
ProvidedKeys == {None, "", "k3y", "other"}

\* auth.py lines 23-56: ApiKeyMiddleware.dispatch; the answer is the status
\* it returns itself, or 0 for what call_next returns
ApiKeyMiddleware_dispatch(COUNCIL_API_KEY, path, provided_key) ==
    IF ~Truthy(COUNCIL_API_KEY) THEN 0
    ELSE IF path \in PUBLIC_PATHS THEN 0
    ELSE IF ~Truthy(provided_key) THEN 401
    ELSE IF provided_key # COUNCIL_API_KEY THEN 403
    ELSE 0

\* main.py lines 35-48: the middleware added to app; CORSMiddleware is the
\* only add_middleware call of the application
app_middleware == {"CORSMiddleware"}

\* The application answers a request: the installed middleware first, then
\* the route's handler
app_call(r) ==
    LET verdict == IF "ApiKeyMiddleware" \in app_middleware
                   THEN ApiKeyMiddleware_dispatch(r.key, r.path, r.provided_key)
                   ELSE 0
    IN  IF verdict = 0
        THEN [r EXCEPT !.pc = "answered", !.handler_ran = TRUE, !.status = 200]
        ELSE [r EXCEPT !.pc = "answered", !.status = verdict]

InitAuth ==
    /\ store = {}
    /\ obj = [j \in JobIds |-> NoJob]
    /\ hist = [j \in JobIds |-> <<>>]
    /\ task = [j \in JobIds |-> IdleTask]
    /\ now = 0
    /\ utcoffset = 0
    /\ call = IdleCall
    /\ delib = IdleDelib
    /\ \E key \in ConfiguredKeys, path \in RequestPaths, provided_key \in ProvidedKeys :
          fn = [pc |-> "received", key |-> key, path |-> path,
                provided_key |-> provided_key, handler_ran |-> FALSE, status |-> 0]

RequestAnswered ==
    /\ fn.pc = "received"
    /\ fn' = app_call(fn)
    /\ UNCHANGED <<store, obj, hist, task, now, call, delib, utcoffset>>

NextAuth == RequestAnswered

SpecAuth == InitAuth /\ [][NextAuth]_vars

\* C31: with the global API key configured, a request to a path outside the
\* allow-list is answered 401 without the X-Council-Key header and 403 with
\* one that does not match, and its handler is not run; allow-listed paths,
\* matching keys and an unset key pass through.
C31_ApiKeyEnforced ==
    fn.pc = "answered" =>
        IF fn.key # None /\ fn.path \notin PUBLIC_PATHS /\ fn.provided_key # fn.key
        THEN /\ ~fn.handler_ran
             /\ fn.status = IF fn.provided_key \in {None, ""} THEN 401 ELSE 403
        ELSE fn.handler_ran

-----------------------------------------------------------------------------
\* Cleanup of the job store

\* The jobs created more than max_age_hours before the clock value t
OlderThan(s, o, t, max_age_hours) ==
    {j \in s : o[j].created_at[1] < t - max_age_hours}

\* C32: cleanup_old_jobs(max_age) removes exactly the jobs whose created_at
\* is older than max_age hours at the time of the call and leaves every
\* other record as it was, whatever the status of a job.
C32_CleanupRemovesOld ==
    [][(store' # store /\ store' \subseteq store) =>
          /\ \E max_age_hours \in CleanupAges :
                store' = store \ OlderThan(store, obj, now, max_age_hours)
          /\ obj' = obj]_vars

-----------------------------------------------------------------------------
\* Listings of the job store: list_jobs on stores of several jobs

MaxListed == 2

ListedStatuses == {"pending", "completed", "failed"}

\* A stored dict in one of the statuses, as create_job and the runner's
\* updates leave it
StoredJob(job_id, query, t, status) ==
    LET created == create_job(job_id, [CHOOSE r \in Requests : TRUE EXCEPT !.query = query], t)
        running == DictUpdate(created, RunningUpdates(t))
    IN  CASE status = "pending" -> created
          [] status = "completed" ->
                DictUpdate(running, CompletedUpdates(t, CHOOSE r \in EngineResults : TRUE))
          [] OTHER ->
                DictUpdate(running, FailedUpdates(t, CHOOSE e \in EngineErrors : TRUE))

\* _jobs.values() of a store of up to MaxListed jobs, in insertion order:
\* the clock never runs backwards between two create_job calls
ListedStores ==
    UNION { { [k \in 1..n |-> StoredJob(k, q[k], t[k], st[k])] :
                q \in [1..n -> {"q1", LongQuery}],
                t \in {f \in [1..n -> 0..MaxTime] :
                          \A k \in 1..(n - 1) : f[k] <= f[k + 1]},
                st \in [1..n -> ListedStatuses] } :
            n \in 0..MaxListed }

ListLimitsFrom0 == {0, 1, 50}

InitList ==
    /\ store = {}
    /\ obj = [j \in JobIds |-> NoJob]
    /\ hist = [j \in JobIds |-> <<>>]
    /\ task = [j \in JobIds |-> IdleTask]
    /\ now = 0
    /\ utcoffset = 0
    /\ call = IdleCall
    /\ delib = IdleDelib
    /\ \E values \in ListedStores :
          fn = [pc |-> "stored", values |-> values, limit |-> 0, status |-> None,
                listed |-> <<>>]

\* GET /api/council/jobs: one listing; the stored dicts are read only
ListJobs(limit, status) ==
    /\ fn.pc \in {"stored", "listed"}
    /\ fn' = [fn EXCEPT !.pc = "listed", !.limit = limit, !.status = status,
                        !.listed = list_jobs_of(fn.values, limit, status)]
    /\ UNCHANGED <<store, obj, hist, task, now, call, delib, utcoffset>>

NextList ==
    \E limit \in ListLimitsFrom0, status \in ListedStatuses \cup {None} :
        ListJobs(limit, status)

SpecList == InitList /\ [][NextList]_vars

-----------------------------------------------------------------------------
\* The async endpoint and its runner

Created(j) == obj[j] = NoJob /\ obj'[j] # NoJob

EngineInvoked(j) == task[j].pc # "deliberating" /\ task'[j].pc = "deliberating"

\* C34 as stated: the engine is invoked exactly once per created job, so a
\* runner that is over has invoked it.
C34_EngineOncePerJob ==
    \A j \in JobIds : task[j].pc = "done" => task[j].engine # "none"

\* C34: POST /api/council/async stores the job in status pending and answers
\* without waiting: once it has answered the job is retrievable by its id,
\* and the engine is invoked only afterwards, by the background runner, at
\* most once per created job, and exactly once for every job that is still
\* in the store when its runner starts.
C34_EngineAfterResponse ==
    /\ [][\A j \in JobIds :
            /\ Created(j) =>
                  /\ j \in store'
                  /\ obj'[j].job_id = j
                  /\ obj'[j].status = "pending"
                  /\ task'[j].pc = "scheduled"
                  /\ task'[j].engine = "none"
            /\ EngineInvoked(j) => task[j].pc = "scheduled" /\ j \in store
            /\ task[j].pc \notin {"none", "scheduled"} => task'[j].pc # "scheduled"
            /\ (task[j].pc = "scheduled" /\ task'[j].pc # "scheduled" /\ j \in store)
                  => EngineInvoked(j)]_vars
    /\ [](\A j \in JobIds :
            (task[j].pc \in {"none", "scheduled"}) => task[j].engine = "none")

C34_Witness ==
    \E j \in store :
        /\ task[j].pc = "deliberating"
        /\ task[j].engine = "none"
        /\ obj[j].status = "running"
        /\ Len(hist[j]) = 2
        /\ hist[j][1].status = "pending"

-----------------------------------------------------------------------------
\* Termination of the jobs

\* The runner task is cancelled while it is suspended in an await:
\* CancelledError is a BaseException, which the `except Exception` of
\* webhooks.py line 230 does not catch, so the task ends without a write
RunnerCancelled(j) ==
    /\ task[j].pc \in {"deliberating", "webhook"}
    /\ task' = [task EXCEPT ![j].pc = "cancelled"]
    /\ UNCHANGED <<store, obj, hist, now, call, delib, fn, utcoffset>>

NextLive ==
    \/ Next
    \/ \E j \in JobIds : RunnerCancelled(j)

\* Every provider call ends: the awaited engine (line 188) returns or raises,
\* so that no runner stays in that await forever
EngineTerminates ==
    \A j \in JobIds : []<>(task[j].pc # "deliberating")

\* A task that can run is run, and every webhook attempt and every backoff
\* sleep ends
RunnerFairness ==
    /\ EngineTerminates
    /\ \A j \in JobIds :
        /\ WF_vars(RunnerStart(j))
        /\ WF_vars(WebhookPost(j))
        /\ WF_vars(WebhookWake(j))

SpecLive == Init /\ [][NextLive]_vars /\ RunnerFairness

\* The same without the cancellation of a runner
SpecLiveUncancelled == Init /\ [][Next]_vars /\ RunnerFairness

FinalStatus == {"failed", "webhook_sent", "webhook_failed"}

\* C35: every job created through the async endpoint eventually reaches
\* failed, webhook_sent or webhook_failed or is gone from the store; no job
\* is seen in pending, running or completed forever, also when its runner
\* is cancelled or cleanup removes it in flight.
C35_JobsReachFinalStatus ==
    \A j \in JobIds :
        (j \in store) ~> (j \notin store \/ obj[j].status \in FinalStatus)

-----------------------------------------------------------------------------
\* Fields of a record against its status

\* What the spec says of one record
FieldsAgree(job) ==
    /\ job.status = "pending" =>
          /\ job.started_at = NoStamp /\ job.completed_at = NoStamp
          /\ job.result = None /\ job.error = None
    /\ job.status \in {"completed", "webhook_sent"} =>
          /\ job.result # None /\ job.completed_at # NoStamp
          /\ job.error = None
    /\ job.status = "failed" =>
          /\ job.error # None /\ job.completed_at # NoStamp
          /\ job.result = None
    /\ job.status = "webhook_failed" =>
          /\ job.result # None /\ job.error # None
    /\ job.completed_at # NoStamp =>
          /\ job.started_at # NoStamp
          /\ job.started_at[1] <= job.completed_at[1]

\* C36: at every observable moment each stored record's fields agree with
\* its status (pending: nothing set; completed and webhook_sent: result and
\* completed_at set, error unset; failed: error and completed_at set, result
\* unset; webhook_failed: result and error set; completed_at set implies
\* started_at set and not later).
C36_FieldsAgreeWithStatus ==
    \A j \in store : FieldsAgree(obj[j])

-----------------------------------------------------------------------------
\* Writes to the store by id

\* The ids create_job has returned so far
CreatedIds == {j \in JobIds : obj[j] # NoJob}

\* A step of the runner of job j
RunnerStep(j) == task[j].pc # "none" /\ task'[j] # task[j]

\* C37: update_job on an id that is not in the store changes nothing: a job
\* that cleanup removed is never put back by its runner's later updates and
\* its record is left as it was, the ids in the store are always among the
\* ids create_job returned, and a step of a runner leaves the record of every
\* other job id alone.
C37_UpdateOfAbsentIdIsNoOp ==
    /\ [](store \subseteq CreatedIds)
    /\ [][\A j \in JobIds :
            /\ (j \in CreatedIds /\ j \notin store) =>
                  (j \notin store' /\ obj'[j] = obj[j])
            /\ RunnerStep(j) =>
                  (\A k \in JobIds \ {j} :
                      obj'[k] = obj[k] /\ (k \in store' <=> k \in store))
         ]_vars

\* A runner ran to its end after cleanup removed its job, while another job
\* is in the store and has been written by its own runner
C37_Witness ==
    \E j, k \in JobIds :
        /\ j # k
        /\ j \in CreatedIds /\ j \notin store
        /\ task[j].pc = "done" /\ task[j].engine # "none"
        /\ obj[j].status = "running"
        /\ k \in store /\ obj[k].status = "webhook_sent"

-----------------------------------------------------------------------------
\* A deliberation in which every council model fails, in async mode

\* The engine of job j returned the all-failed sentinel
AllModelsFailed(j) == task[j].result = AllFailedResult

\* C38: a deliberation in which every council model fails is no job failure:
\* the only webhook event dispatched for the job is council.completed, and
\* the stored record holds the sentinel as its result with a status of
\* completed, webhook_sent or webhook_failed, never failed.
C38_AllFailedIsNotJobFailure ==
    \A j \in JobIds :
        AllModelsFailed(j) =>
            /\ task[j].dispatched \subseteq {"council.completed"}
            /\ j \in store =>
                  /\ obj[j].result = AllFailedResult
                  /\ obj[j].status \in {"completed", "webhook_sent", "webhook_failed"}

-----------------------------------------------------------------------------
\* The stage-streamed endpoint beside run_full_council, on the same provider
\* outcomes (main.py lines 421-466).  `delib` is the engine's run with
\* final_only = False and the default models, `fn` the streamed run.

\* main.py line 433: stage-1 is awaited with the default council
event_generator_stage1 == run_full_council_enter(FALSE, Absent, Absent)

\* main.py lines 433-438: the stage-1 fan-out has returned; the rankings are
\* collected next, whatever stage-1 gave
event_generator_after_stage1(d) ==
    LET stage1_results == FormatResults(query_models_parallel(d.calls1))
    IN  [d EXCEPT !.pc = "stage2", !.stage1_results = stage1_results,
                  !.labels = label_to_model(stage1_results),
                  !.calls2 = IssueCalls(stage2_models(Absent, stage1_results))]

\* main.py lines 438-444: the stage-2 fan-out has returned
event_generator_after_stage2(d) ==
    LET stage2_results == FormatRankings(query_models_parallel(d.calls2))
    IN  [d EXCEPT !.pc = "stage3",
                  !.stage2_results = stage2_results,
                  !.aggregate = calculate_aggregate_rankings(stage2_results, d.labels),
                  !.call3 = IssueChairman(d, d.stage1_results, stage2_results)]

\* main.py lines 444-457: the chairman call has returned; the data of the
\* three stage events
event_generator_after_stage3(d, outcome) ==
    [d EXCEPT !.pc = "returned",
              !.call3.state = outcome,
              !.ret = [stage1 |-> d.stage1_results, stage2 |-> d.stage2_results,
                       stage3 |-> stage3_result(d.call3.model, outcome)]]

InitBoth ==
    /\ store = {}
    /\ obj = [j \in JobIds |-> NoJob]
    /\ hist = [j \in JobIds |-> <<>>]
    /\ task = [j \in JobIds |-> IdleTask]
    /\ now = 0
    /\ utcoffset = 0
    /\ call = IdleCall
    /\ delib = run_full_council_enter(FALSE, Absent, Absent)
    /\ fn = event_generator_stage1

\* The calls of a fan-out with call i ended, when the run has that call in
\* flight
EndedIn(calls, i, outcome, text) ==
    IF i \in 1..Len(calls) /\ calls[i].state = "inflight"
    THEN [call_ends(calls, i, outcome) EXCEPT ![i].text = text]
    ELSE calls

\* The provider answers stage-1 call i of both runs alike
BothStage1CallEnds(i, outcome) ==
    /\ i \in 1..Len(fn.calls1)
    /\ fn.calls1[i].state = "inflight"
    /\ fn' = [fn EXCEPT !.calls1 = EndedIn(@, i, outcome, <<>>)]
    /\ delib' = [delib EXCEPT !.calls1 = EndedIn(@, i, outcome, <<>>)]
    /\ UNCHANGED <<store, obj, hist, task, now, call, utcoffset>>

\* Both stage-1 gathers return
BothStage1Gathered ==
    /\ fn.pc = "stage1"
    /\ gather_done(fn.calls1)
    /\ fn' = event_generator_after_stage1(fn)
    /\ delib' = run_full_council_after_stage1(delib)
    /\ UNCHANGED <<store, obj, hist, task, now, call, utcoffset>>

\* The provider answers ranking call i alike in every run that issued it
BothStage2CallEnds(i, outcome) ==
    /\ i \in 1..Len(fn.calls2)
    /\ fn.calls2[i].state = "inflight"
    /\ \E text \in ContentsOf(2, outcome) :
          /\ fn' = [fn EXCEPT !.calls2 = EndedIn(@, i, outcome, text)]
          /\ delib' = [delib EXCEPT !.calls2 = EndedIn(@, i, outcome, text)]
    /\ UNCHANGED <<store, obj, hist, task, now, call, utcoffset>>

\* The stage-2 gathers return
BothStage2Gathered ==
    /\ fn.pc = "stage2"
    /\ gather_done(fn.calls2)
    /\ fn' = event_generator_after_stage2(fn)
    /\ delib' = IF delib.pc = "stage2"
                THEN run_full_council_after_stage2(delib) ELSE delib
    /\ UNCHANGED <<store, obj, hist, task, now, call, utcoffset>>

\* The provider answers the chairman call alike in every run that issued it
BothChairmanEnds(outcome) ==
    /\ fn.pc = "stage3"
    /\ fn.call3.state = "inflight"
    /\ fn' = event_generator_after_stage3(fn, outcome)
    /\ delib' = IF delib.pc = "stage3"
                THEN run_full_council_after_stage3(delib, outcome) ELSE delib
    /\ UNCHANGED <<store, obj, hist, task, now, call, utcoffset>>

NextBoth ==
    \/ \E i \in 1..MaxCouncil, outcome \in CallOutcomes : BothStage1CallEnds(i, outcome)
    \/ BothStage1Gathered
    \/ \E i \in 1..MaxCouncil, outcome \in CallOutcomes : BothStage2CallEnds(i, outcome)
    \/ BothStage2Gathered
    \/ \E outcome \in CallOutcomes : BothChairmanEnds(outcome)

SpecBoth == InitBoth /\ [][NextBoth]_vars

\* The models a run has sent a prompt to, per stage
CallsIssued(d) ==
    [stage1 |-> [i \in 1..Len(d.calls1) |-> d.calls1[i].model],
     stage2 |-> [i \in 1..Len(d.calls2) |-> d.calls2[i].model],
     stage3 |-> IF d.call3.state = "idle" THEN <<>> ELSE <<d.call3.model>>]

\* C39: on the same query and provider outcomes the streamed run performs
\* the same provider calls and produces the same stage-1, stage-2 and
\* stage-3 data as run_full_council with final_only = False; when every
\* stage-1 call fails, the streamed run issues no ranking call and no
\* chairman call.
C39_StreamMatchesEngine ==
    /\ (fn.pc # "stage1" /\ fn.stage1_results = <<>>) =>
          (fn.calls2 = <<>> /\ fn.call3.state = "idle")
    /\ (fn.pc = "returned" /\ delib.pc = "returned") =>
          /\ CallsIssued(fn) = CallsIssued(delib)
          /\ fn.ret.stage1 = delib.ret.stage1
          /\ fn.ret.stage2 = delib.ret.stage2
          /\ fn.ret.stage3 = delib.ret.stage3

\* The two runs agree whenever some stage-1 call succeeded
C39_AgreeWithStage1 ==
    (fn.pc = "returned" /\ delib.pc = "returned" /\ fn.stage1_results # <<>>) =>
          /\ CallsIssued(fn) = CallsIssued(delib)
          /\ fn.ret.stage1 = delib.ret.stage1
          /\ fn.ret.stage2 = delib.ret.stage2
          /\ fn.ret.stage3 = delib.ret.stage3

-----------------------------------------------------------------------------
\* Vote counts of the aggregate ranking

\* C40: in every aggregate ranking each entry's model is a model of the
\* stage-1 list, each entry has a vote count of at least 1, and no vote count
\* exceeds the number of rankers that returned a stage-2 entry, whatever the
\* rankers' texts (texts that repeat a label included).
C40_VotesBoundedByRankers ==
    fn.pc = "returned" =>
        \A i \in 1..Len(fn.result) :
            /\ \E k \in 1..Len(fn.map) : fn.map[k].model = fn.result[i].model
            /\ fn.result[i].rankings_count >= 1
            /\ fn.result[i].rankings_count <= Len(fn.stage2_results)

====
